---- MODULE Spec2Model ----
(***************************************************************************)
(* SmartCity SensorBridge Partheland: the MQTT message parser              *)
(* (parser_service.py), the device catalog, its loading and its queries    *)
(* (config_service.py), the MQTT connection with its reconnect task        *)
(* (mqtt_service.py), the coordinator's device state and freshness         *)
(* tracking (coordinator.py), the derived availability of the device meta  *)
(* sensor (sensor.py), the setup of a config entry (__init__.py) and the   *)
(* config and options flows (config_flow.py).                              *)
(*                                                                         *)
(* Strings.  A topic is the sequence of its "/"-separated segments.  Ids,  *)
(* locations and field names are strings of a small universe; the Python   *)
(* string tests the code applies to them (startswith, lower, "in") are     *)
(* tabulated for that universe.  Python None is NoneStr where a string is  *)
(* expected and the record NoneResult where a dict is expected.            *)
(*                                                                         *)
(* JSON.  A leaf value is a record tagged by its JSON kind; an object is   *)
(* [t |-> "obj", o |-> f] with f a function from keys to leaf values or,   *)
(* one level deep, objects.                                                *)
(*                                                                         *)
(* Specifications.  SpecParse applies parse_message to one message under   *)
(* one catalog.  Spec runs the integration: first refresh, broker          *)
(* callbacks on the network thread, the callbacks they hand to the event   *)
(* loop (run in the order they were handed over), health ticks and the two *)
(* clocks; a reconnect task, once scheduled, stays asleep there.           *)
(* SpecReconnect runs the connection: disconnects, the reconnect task with *)
(* its delay, health ticks, shutdown and a broker that goes away and comes *)
(* back; SpecReconnectFair adds the scheduling of the event loop.          *)
(* SpecSubscribe runs the first refresh and the shutdown with every call   *)
(* of subscribe and unsubscribe as steps of its own; SpecSubscribeFair     *)
(* adds the scheduling.  SpecSetup sets up a config entry from a catalog   *)
(* file.  Every cataloged device is selected.  SpecQuery applies the       *)
(* catalog queries to a loaded catalog, SpecThreshold reads the            *)
(* availability thresholds of a configuration.  SpecShutdown runs          *)
(* async_shutdown await by await next to the network thread, the callbacks *)
(* it hands to the event loop and the queue of connect/disconnect events.  *)
(* SpecShutdownFair adds the scheduling of the event loop and of the event *)
(* processor.  SpecFlow runs the user flow and the options flow as the     *)
(* flow manager drives them: a flow stays in progress after a form and     *)
(* ends with an abort, a created entry or an exception.  SpecErrors counts *)
(* and logs the errors handed to the error handler (error_handler.py).     *)
(* SpecDeliver follows every message from the network thread through the   *)
(* event loop to the task that parses it, stores its readings and fires    *)
(* the change event with the entities of entity_factory.py, under a Home   *)
(* Assistant that starts tasks eagerly and under one that schedules them.  *)
(*                                                                         *)
(* Durations of the reconnect delay are microseconds: the float the code   *)
(* multiplies by 1.2 is carried to the microsecond, rounded down.  Time    *)
(* passes independently of the delay.  The broker's side of a connection   *)
(* is the set of topics subscribed in the session of the current client: a *)
(* new client, or a new connection of the same client, starts a clean      *)
(* session.  The queue of connect/disconnect events changes only in        *)
(* SpecShutdown; in the other specifications a callback of the network     *)
(* thread and the event it queues are one step.                            *)
(***************************************************************************)
EXTENDS Integers, Sequences, FiniteSets, TLC

(***************************************************************************)
(* Bounds of the model.                                                    *)
(***************************************************************************)
MaxTime == 302
MaxInFlight == 2
MaxReconnectTasks == 2
MaxFailures == 15
MaxTopics == 2
MaxHandoff == 3
MaxEvents == 3
MaxFlows == 1
MaxEntries == 1
MaxSelected == 1

(***************************************************************************)
(* Constants of the code.                                                  *)
(***************************************************************************)
\* the sleeps of subscribe's loop: wait_time += 0.1 while wait_time < 10, and the
\* float sum of a hundred 0.1 is 9.99999999999998
SubscribePolls == 101
InitialDelay == 3000000
DelayCap == 30000000

(***************************************************************************)
(* Values.                                                                 *)
(***************************************************************************)
NoneStr == "<None>"
NoneResult == [ok |-> FALSE]

Num(n) == [t |-> "num", n |-> n]
Str(s) == [t |-> "str", s |-> s]
Bool(b) == [t |-> "bool", b |-> b]
Null == [t |-> "null"]
Arr == [t |-> "arr"]
Obj(f) == [t |-> "obj", o |-> f]
EmptyFn == [k \in {} |-> Null]
EmptyObj == Obj(EmptyFn)

\* the JSON kinds json.loads maps to a Python int or float
IsJsonNumber(v) == v.t = "num"

\* isinstance(field_value, (int, float)): Python's bool is a subclass of int,
\* so json.loads' True/False pass the test as well as its int and float.
IsIntOrFloat(v) == v.t \in {"num", "bool"}

\* Python truthiness of a parsed JSON value ("if not fields")
Truthy(v) ==
    CASE v.t = "num" -> v.n # 0
      [] v.t = "str" -> v.s # ""
      [] v.t = "bool" -> v.b
      [] v.t = "null" -> FALSE
      [] v.t = "arr" -> TRUE
      [] v.t = "obj" -> DOMAIN v.o # {}

\* str.startswith("median") and str.startswith("median_") on the universe
MedianMarked == {"median", "median_Naunhof", "median_Brandis"}
StripMedianPrefix == ("median_Naunhof" :> "Naunhof") @@ ("median_Brandis" :> "Brandis")
StartsWithMedianPrefix(s) == s \in DOMAIN StripMedianPrefix

\* 'rssi' in k.lower() on the universe of field names
RssiLike == {"rssi", "RSSI", "wifi_rssi"}

\* str.lower() on the universe of device categories
LowerTable == ("senseBox" :> "sensebox") @@ ("Temperature" :> "temperature")
                @@ ("MedianEntities" :> "medianentities")
Lower(s) == IF s \in DOMAIN LowerTable THEN LowerTable[s] ELSE s

Last(s) == s[Len(s)]

(***************************************************************************)
(* The device catalog (config.json as loaded by ConfigService).            *)
(* known_devices is the ordered mapping category -> list of devices; a     *)
(* device is [id, location, topic_pattern, sensors], location NoneStr and  *)
(* topic_pattern <<>> when the key is absent.                              *)
(***************************************************************************)
Device(id, location, pattern, sensors) ==
    [id |-> id, location |-> location, topic_pattern |-> pattern, sensors |-> sensors]

Category(name, devices) == [name |-> name, devices |-> devices]

\* config_service.get_median_entities: the list under known_devices.MedianEntities
get_median_entities(cfg) ==
    LET idx == {i \in 1..Len(cfg.known_devices) : cfg.known_devices[i].name = "MedianEntities"}
    IN  IF idx = {} THEN <<>> ELSE cfg.known_devices[CHOOSE i \in idx : TRUE].devices

\* known_devices.get(name, [])
devices_of(cfg, name) ==
    LET idx == {i \in 1..Len(cfg.known_devices) : cfg.known_devices[i].name = name}
    IN  IF idx = {} THEN <<>> ELSE cfg.known_devices[CHOOSE i \in idx : TRUE].devices

\* the first of the elements of a list that satisfy a test, as the for-loops find
\* it; 0 if there is none
FirstIndex(hits) ==
    IF hits = {} THEN 0 ELSE CHOOSE i \in hits : \A j \in hits : i <= j

RECURSIVE Flatten(_)
Flatten(cats) ==
    IF cats = <<>> THEN <<>> ELSE Head(cats).devices \o Flatten(Tail(cats))

\* all devices of the non-senseBox categories, in the order the loops visit them
NonSenseBoxDevices(cfg) ==
    Flatten(SelectSeq(cfg.known_devices, LAMBDA c : c.name # "senseBox"))

\* config_service.get_device_by_id: the device info of an id, NoneResult if the
\* catalog does not know it
get_device_by_id(cfg, device_id) ==
    LET all == Flatten(cfg.known_devices)
        i == FirstIndex({k \in 1..Len(all) : all[k].id = device_id})
        med == get_median_entities(cfg)
        m == FirstIndex({k \in 1..Len(med) :
                            med[k].id = device_id \/ med[k].location = device_id})
    IN  IF i # 0 THEN [ok |-> TRUE, id |-> device_id]
        ELSE IF m # 0 THEN [ok |-> TRUE, id |-> device_id]
        ELSE NoneResult

(***************************************************************************)
(* ParserService.                                                          *)
(***************************************************************************)
\* _is_valid_topic: one of the three regular expressions matches
_is_valid_topic(topic) ==
    \/ Len(topic) = 2 /\ topic[1] = "senseBox:home" /\ topic[2] # ""
    \/ Len(topic) = 3 /\ topic[1] = "senseBox:home" /\ topic[2] = "median" /\ topic[3] # ""
    \/ Len(topic) = 2 /\ topic[1] = "sensoren" /\ topic[2] # ""

\* validate_message: payload non-empty, UTF-8, JSON, and the topic valid
validate_message(topic, payload) ==
    /\ payload.kind = "json"
    /\ _is_valid_topic(topic)

\* _get_topic_type
_get_topic_type(topic) ==
    IF Len(topic) >= 1 /\ topic[1] = "senseBox:home" THEN "sensebox"
    ELSE IF Len(topic) >= 1 /\ topic[1] = "sensoren" THEN "specialized_sensors"
    ELSE "unknown"

\* _extract_device_id_from_topic: the trailing segment
_extract_device_id_from_topic(topic) ==
    IF Len(topic) >= 2 /\ topic[1] \in {"senseBox:home", "sensoren"}
    THEN Last(topic) ELSE NoneStr

\* _is_median_topic: topic.startswith("senseBox:home/median")
_is_median_topic(topic) ==
    /\ Len(topic) >= 2
    /\ topic[1] = "senseBox:home"
    /\ topic[2] \in MedianMarked

\* _map_median_location_to_id: the id of the first entity, in catalog order, whose
\* id or location is the token; the token itself if there is none
MapMedianIdBeforeLocation(cfg, location_or_id) ==
    LET med == get_median_entities(cfg)
        i == FirstIndex({k \in 1..Len(med) : med[k].id = location_or_id})
        l == FirstIndex({k \in 1..Len(med) : med[k].location = location_or_id})
    IN  IF i # 0 THEN med[i].id
        ELSE IF l # 0 THEN med[l].id
        ELSE location_or_id
MapMedianIdOnly(cfg, location_or_id) ==
    LET med == get_median_entities(cfg)
        i == FirstIndex({k \in 1..Len(med) : med[k].id = location_or_id})
    IN  IF i = 0 THEN location_or_id ELSE med[i].id
_map_median_location_to_id(cfg, location_or_id) ==
    LET med == get_median_entities(cfg)
        i == FirstIndex({k \in 1..Len(med) :
                            med[k].id = location_or_id \/ med[k].location = location_or_id})
    IN  IF i = 0 THEN location_or_id ELSE med[i].id

\* the per-entity test of the median branch of _get_configured_sensors_for_device
MedianEntityMatches(e, device_id) ==
    \/ e.id = device_id
    \/ e.location = device_id
    \/ StartsWithMedianPrefix(device_id) /\ e.location = StripMedianPrefix[device_id]
    \/ Len(e.topic_pattern) >= 2 /\ Last(e.topic_pattern) = device_id

\* _get_configured_sensors_for_device: the sensors of the first matching entry,
\* [ok |-> FALSE] for None
_get_configured_sensors_for_device(cfg, device_id, is_median, device_type) ==
    LET list == IF is_median THEN get_median_entities(cfg)
                ELSE IF device_type = "sensebox" THEN devices_of(cfg, "senseBox")
                ELSE NonSenseBoxDevices(cfg)
        i == IF is_median
             THEN FirstIndex({k \in 1..Len(list) : MedianEntityMatches(list[k], device_id)})
             ELSE FirstIndex({k \in 1..Len(list) : list[k].id = device_id})
    IN  IF i = 0 THEN NoneResult ELSE [ok |-> TRUE, sensors |-> list[i].sensors]

\* _is_rssi_only_message
_is_rssi_only_message(fields) ==
    /\ DOMAIN fields \cap RssiLike # {}
    /\ DOMAIN fields \ RssiLike = {}

\* the extraction loop of both parsers: the configured fields with an int or float
ExtractSensorDataNoAllowList(fields, configured_sensors) ==
    LET keep == {k \in DOMAIN fields : IsIntOrFloat(fields[k])}
    IN  [k \in keep |-> fields[k]]
ExtractSensorData(fields, configured_sensors) ==
    LET keep == {k \in DOMAIN fields : IsIntOrFloat(fields[k]) /\ k \in configured_sensors}
    IN  [k \in keep |-> fields[k]]

ParsedReading(device_id, device_type, topic, sensor_data, is_median) ==
    [ok |-> TRUE, device_id |-> device_id, device_type |-> device_type,
     topic |-> topic, sensor_data |-> sensor_data, is_median |-> is_median]

\* an exception raised inside a try block, before the except clause sees it
Raised == [ok |-> FALSE, exc |-> "Exception"]

\* "except Exception: return None"
ExceptReturnNone(r) == IF r = Raised THEN NoneResult ELSE r

\* data.get(fields_path, {}) with the default path "fields"
DataGetFields(data) ==
    IF data.t # "obj" THEN Raised                     \* AttributeError: no .get
    ELSE IF "fields" \in DOMAIN data.o THEN data.o["fields"]
    ELSE EmptyObj

\* the device id _parse_sensebox_message works with after the median mapping
SenseboxDeviceId(cfg, topic) ==
    LET device_id == _extract_device_id_from_topic(topic)
    IN  IF _is_median_topic(topic) THEN _map_median_location_to_id(cfg, device_id)
        ELSE device_id

\* the try block of _parse_sensebox_message (data is the parsed JSON document)
SenseboxTry(cfg, topic, data) ==
    LET is_median == _is_median_topic(topic)
        device_id == SenseboxDeviceId(cfg, topic)
        fields == IF is_median THEN data ELSE DataGetFields(data)
        configured == _get_configured_sensors_for_device(cfg, device_id, is_median, "sensebox")
    IN  IF _extract_device_id_from_topic(topic) \in {NoneStr, ""} THEN NoneResult
        ELSE IF fields = Raised THEN Raised
        ELSE IF ~Truthy(fields) THEN NoneResult
        ELSE IF ~configured.ok \/ configured.sensors = {} THEN NoneResult
        ELSE IF fields.t # "obj" THEN Raised              \* AttributeError: no .items
        ELSE LET sensor_data == ExtractSensorData(fields.o, configured.sensors)
             IN  IF DOMAIN sensor_data = {} THEN NoneResult
                 ELSE ParsedReading(device_id, "sensebox", topic, sensor_data, is_median)

_parse_sensebox_message(cfg, topic, data) == ExceptReturnNone(SenseboxTry(cfg, topic, data))

\* the try block of _parse_specialized_message
SpecializedTryNoRssiFilter(cfg, topic, data) ==
    LET device_id == _extract_device_id_from_topic(topic)
        fields == DataGetFields(data)
        configured == _get_configured_sensors_for_device(cfg, device_id, FALSE, "specialized")
    IN  IF device_id \in {NoneStr, ""} THEN NoneResult
        ELSE IF fields = Raised THEN Raised
        ELSE IF ~Truthy(fields) THEN NoneResult
        ELSE IF ~configured.ok \/ configured.sensors = {} THEN NoneResult
        ELSE IF fields.t # "obj" THEN Raised
        ELSE LET sensor_data == ExtractSensorData(fields.o, configured.sensors)
             IN  IF DOMAIN sensor_data = {} THEN NoneResult
                 ELSE ParsedReading(device_id, "specialized", topic, sensor_data, FALSE)
SpecializedTry(cfg, topic, data) ==
    LET device_id == _extract_device_id_from_topic(topic)
        fields == DataGetFields(data)
        configured == _get_configured_sensors_for_device(cfg, device_id, FALSE, "specialized")
    IN  IF device_id \in {NoneStr, ""} THEN NoneResult
        ELSE IF fields = Raised THEN Raised
        ELSE IF ~Truthy(fields) THEN NoneResult
        ELSE IF cfg.ignore_rssi_only /\ fields.t # "obj" THEN Raised   \* no .keys
        ELSE IF cfg.ignore_rssi_only /\ _is_rssi_only_message(fields.o) THEN NoneResult
        ELSE IF ~configured.ok \/ configured.sensors = {} THEN NoneResult
        ELSE IF fields.t # "obj" THEN Raised                           \* no .items
        ELSE LET sensor_data == ExtractSensorData(fields.o, configured.sensors)
             IN  IF DOMAIN sensor_data = {} THEN NoneResult
                 ELSE ParsedReading(device_id, "specialized", topic, sensor_data, FALSE)

_parse_specialized_message(cfg, topic, data) ==
    ExceptReturnNone(SpecializedTry(cfg, topic, data))

\* get_sensor_data
get_sensor_data(cfg, topic, payload) ==
    IF payload.kind # "json" THEN NoneResult
    ELSE IF _get_topic_type(topic) = "sensebox"
         THEN _parse_sensebox_message(cfg, topic, payload.data)
    ELSE IF _get_topic_type(topic) = "specialized_sensors"
         THEN _parse_specialized_message(cfg, topic, payload.data)
    ELSE NoneResult

\* parse_message: None unless the message validates and sensor data result
ParseWithoutValidation(cfg, topic, payload) ==
    ExceptReturnNone(get_sensor_data(cfg, topic, payload))
parse_message(cfg, topic, payload) ==
    ExceptReturnNone(IF ~validate_message(topic, payload) THEN NoneResult
                     ELSE get_sensor_data(cfg, topic, payload))

(***************************************************************************)
(* State.                                                                  *)
(***************************************************************************)
VARIABLES
    config,                 \* ConfigService._config: the loaded catalog
    in_topic,               \* the topic of the message handed to parse_message
    in_payload,             \* its payload
    parsed,                 \* what parse_message returned
    resolved,               \* the device id the parser resolved the topic to
    pc,                     \* "ready" before the call, "done" after it
    phase,                  \* coordinator: "constructed", "running" or "failed"
    client,                 \* MQTTService.client: "none", "stopped" (no network
                            \* loop) or "started" (network loop running)
    _connected,             \* MQTTService._connected
    _callbacks,             \* the topics MQTTService._callbacks has a handler for
    _reconnect_task,        \* MQTTService._reconnect_task holds a task not done
    reconnect_tasks,        \* the _reconnect coroutines alive: "sleeping" or
                            \* "connecting" each
    _reconnect_delay,       \* MQTTService._reconnect_delay, in microseconds
    reconnect_failures,     \* history: failed reconnect attempts since the last
                            \* successful one
    reconnect_skipped,      \* history: a reconnect was requested while the task
                            \* now alive was pending
    subscribed,             \* the topics the broker delivers to the session of
                            \* the current client
    broker_up,              \* environment: the broker can be reached
    sub_pc,                 \* MQTTService.subscribe: "idle", "waiting" (in its
                            \* polling loop) or "subscribing" (client.subscribe)
    sub_topic,              \* its topic argument
    wait_time,              \* its wait_time, as the number of 0.1 s sleeps
    sub_outcome,            \* history: how the last subscribe call returned
    sub_todo,               \* the topics the coordinator's loop over _mqtt_topics
                            \* has still to pass to subscribe or unsubscribe
    config_file,            \* environment: the catalog file
    _config,                \* ConfigService._config
    setup_result,           \* history: what async_setup_entry returned
    connect_returned,       \* history: what the last connect() returned
    loop_calls,             \* callbacks handed to the event loop by _on_message,
                            \* in the order call_soon_threadsafe queued them
    tasks,                  \* update_sensor_data calls suspended after the store
    _sensor_data,           \* coordinator._sensor_data: device id -> readings
    _device_last_seen,      \* coordinator._device_last_seen: device id -> time
    _default_stale_seconds, \* coordinator threshold policy
    _per_type_stale,
    _per_device_stale,
    now,                    \* time.monotonic(), in seconds
    wall_offset,            \* time.time() - time.monotonic()
    query,                  \* history: the last catalog query, [op, arg]
    query_result,           \* history: what it returned
    threshold_input,        \* history: the raw threshold last put in the catalog's
                            \* availability section, [slot, value]
    threshold_config,       \* history: what get_availability_config made of it
    _event_processor_task,  \* MQTTService._event_processor_task holds a task
                            \* that is not done
    _mqtt_unsubs,           \* coordinator._mqtt_unsubs: the bus listeners held
    _event_queue,           \* MQTTService._event_queue: the event types pending
    handoff,                \* callbacks MQTTService handed to the event loop with
                            \* call_soon_threadsafe from _on_connect and
                            \* _on_disconnect, in the order they were queued
    shutdown_pc,            \* async_shutdown: "idle", "loop_stop" and
                            \* "client_disconnect" (awaiting that executor job
                            \* of disconnect()), "done"
    shutdown_raised,        \* history: the steps of async_shutdown that raised
    _client_id,             \* MQTTService._client_id
    entries,                \* hass.config_entries: the entries of the integration
    flows,                  \* the config and options flows in progress: flow id ->
                            \* handler, entry and the choices of its form
    flow_result,            \* history: the FlowResult returned last
    received,               \* history: the messages _on_message found a handler
                            \* for, in the order the network thread got them
    invoked,                \* history: the messages _mqtt_message_wrapper was
                            \* called with, in the order of the calls
    message_tasks,          \* the _handle_mqtt_message tasks not finished, in
                            \* the order async_create_task created them
    fired,                  \* history: the data of the sensor-data events fired
                            \* on the bus, in the order they were fired
    eager,                  \* environment: async_create_task starts a task
                            \* eagerly (it runs to its first suspension inside
                            \* the call)
    last_update_success,    \* DataUpdateCoordinator.last_update_success
    _error_count,           \* ErrorHandler._error_count: context -> count
    error_log               \* history: what the last handle_error logged and
                            \* fired

parseVars == <<in_topic, in_payload, parsed, resolved, pc>>
mqttVars == <<client, _connected, _callbacks, loop_calls>>
reconnectVars ==
    <<_reconnect_task, reconnect_tasks, _reconnect_delay, reconnect_failures,
      reconnect_skipped>>
dataVars == <<tasks, _sensor_data, _device_last_seen>>
policyVars == <<_default_stale_seconds, _per_type_stale, _per_device_stale>>
clockVars == <<now, wall_offset>>
brokerVars == <<subscribed, broker_up>>
subscribeVars == <<sub_pc, sub_topic, wait_time, sub_outcome, sub_todo>>
setupVars == <<config_file, _config, setup_result, connect_returned>>
apiVars == <<subscribeVars, setupVars>>
runVars ==
    <<parseVars, phase, mqttVars, reconnectVars, dataVars, policyVars, clockVars,
      brokerVars, apiVars>>
queryVars == <<query, query_result>>
thresholdVars == <<threshold_input, threshold_config>>
taskVars == <<_event_processor_task, _mqtt_unsubs>>
lifeVars == <<_event_queue, handoff, shutdown_pc, shutdown_raised, _client_id>>
flowVars == <<entries, flows, flow_result>>
deliverVars == <<received, invoked, message_tasks, fired, eager>>
tickVars == <<last_update_success>>
errorVars == <<_error_count, error_log>>
moreVars == <<deliverVars, tickVars, errorVars>>
sideVars == <<queryVars, thresholdVars, lifeVars, flowVars, moreVars>>
auxVars == <<taskVars, sideVars>>
vars ==
    <<config, parseVars, phase, mqttVars, reconnectVars, dataVars, policyVars, clockVars,
      brokerVars, apiVars, auxVars>>

(***************************************************************************)
(* The inputs of the parser: catalogs, topics and payloads.                *)
(***************************************************************************)
SensorNames == {"temp", "hum", "rssi"}

SenseBoxTopic(id) == <<"senseBox:home", id>>
MedianTopic(token) == <<"senseBox:home", "median", token>>
SpecializedTopic(id) == <<"sensoren", id>>

\* a catalog of one senseBox, one specialized sensor and one median entity, all
\* with the allow-list S
FilterCatalog(S, rssi_filter) ==
    [known_devices |-> <<
        Category("senseBox", <<Device("sb1", NoneStr, SenseBoxTopic("sb1"), S)>>),
        Category("Temperature", <<Device("t1", NoneStr, SpecializedTopic("t1"), S)>>),
        Category("MedianEntities",
                 <<Device("median_Naunhof", "Naunhof", MedianTopic("Naunhof"), S)>>) >>,
     ignore_rssi_only |-> rssi_filter]

FilterCatalogs == {FilterCatalog(S, b) : S \in SUBSET SensorNames, b \in BOOLEAN}

\* median entities: ids are unique within a catalog, locations and topic patterns
\* are whatever the catalog file says
MedianIds == {"median_Naunhof", "Naunhof", "median_Brandis"}
MedianLocations == {NoneStr, "Naunhof", "Brandis", "median_Naunhof"}
MedianPatterns == {<<>>, MedianTopic("Naunhof")}
MedianSensors == {{"temp"}, {"hum"}}
MedianEntitySet ==
    {Device(i, l, p, S) : i \in MedianIds, l \in MedianLocations,
                          p \in MedianPatterns, S \in MedianSensors}
MedianLists ==
    {<<e>> : e \in MedianEntitySet}
    \cup {l \in {<<e1, e2>> : e1 \in MedianEntitySet, e2 \in MedianEntitySet} :
             l[1].id # l[2].id}

MedianCatalog(list) ==
    [known_devices |-> <<
        Category("senseBox", <<Device("sb1", NoneStr, SenseBoxTopic("sb1"), {"temp"})>>),
        Category("MedianEntities", list) >>,
     ignore_rssi_only |-> TRUE]

MedianCatalogs == {MedianCatalog(l) : l \in MedianLists}

ValidTopics ==
    {SenseBoxTopic("sb1"), SenseBoxTopic("unknown"), SenseBoxTopic("median_Naunhof"),
     MedianTopic("Naunhof"), MedianTopic("median_Naunhof"), MedianTopic("Brandis"),
     SpecializedTopic("t1"), SpecializedTopic("sb1"), SpecializedTopic("median_Naunhof")}
InvalidTopics ==
    {<<"senseBox:home">>, <<"senseBox:home", "">>, <<"senseBox:home", "sb1", "x">>,
     <<"senseBox:home", "median", "Naunhof", "x">>, <<"sensoren">>,
     <<"sensoren", "t1", "x">>, <<"other", "sb1">>, <<"senseBox:home", "x", "sb1">>,
     <<"sensoren", "x", "t1">>, <<>>}
MedianTokens == {"Naunhof", "median_Naunhof", "Brandis"}
MedianTopics == {MedianTopic(t) : t \in MedianTokens} \cup {SenseBoxTopic("median_Naunhof")}

\* the data objects: "temp" of every JSON kind, "hum" a number or a string, a
\* signal-strength key
TempValues == {Num(21), Num(0), Str("ok"), Bool(TRUE), Null, Arr, EmptyObj}
HumValues == {Num(55), Str("ok")}
RssiValues == {Num(-80)}
Opt(key, values) == {EmptyFn} \cup {key :> v : v \in values}
FieldObjects ==
    {a @@ b @@ c : a \in Opt("temp", TempValues), b \in Opt("hum", HumValues),
                   c \in Opt("rssi", RssiValues)}

Json(data) == [kind |-> "json", data |-> data]
BrokenPayloads ==
    {[kind |-> k, data |-> Null] : k \in {"empty", "badutf8", "badjson"}}
JsonPayloads ==
    {Json(Obj("fields" :> Obj(f))) : f \in FieldObjects}
    \cup {Json(Obj(f)) : f \in FieldObjects}
    \cup {Json(Num(5)), Json(Null), Json(Arr), Json(Str("x")),
          Json(Obj("fields" :> Num(5))), Json(Obj("fields" :> Arr)),
          Json(Obj("fields" :> Null))}
Payloads == BrokenPayloads \cup JsonPayloads
MedianPayloads == {Json(Obj(("temp" :> Num(21)) @@ ("hum" :> Num(55)))), Json(Obj("hum" :> Num(55)))}

(***************************************************************************)
(* The parser applied to one message.                                      *)
(***************************************************************************)
\* ConfigService._config before the first load_config
NoneConfig == [loaded |-> FALSE, dict |-> EmptyFn]
\* no catalog file
NoFile == [exists |-> FALSE, json |-> FALSE, sections |-> EmptyFn]

\* no flow in progress under a flow id, and no result yet
NoFlow ==
    [handler |-> "none", entry |-> 0, devices |-> {}, median_entities |-> {},
     defaults |-> EmptyFn]
NoFlowResult ==
    [type |-> "none", step_id |-> NoneStr, errors |-> EmptyFn, reason |-> NoneStr,
     title |-> NoneStr, data |-> EmptyFn]
\* the listeners of the connected and the disconnected event on the bus
MqttListeners == {"mqtt_connected", "mqtt_disconnected"}
\* no threshold parsed yet
NoThreshold == [slot |-> "none", value |-> Null]
NoOverrides == [default_stale_seconds |-> 0, per_type |-> EmptyFn, per_device |-> EmptyFn]
\* no handle_error call yet
NoErrorLog == [context |-> NoneStr, records |-> {}]
\* no catalog query yet
NoQuery == [op |-> "none", arg |-> NoneStr]
NoQueryResult == [raised |-> FALSE, items |-> <<>>]

\* the fields as SensorBridgeCoordinator.__init__, MQTTService.__init__ and
\* ConfigService.__init__ leave them
Fields ==
    /\ phase = "constructed"
    /\ client = "none"
    /\ _connected = FALSE
    /\ _callbacks = {}
    /\ _reconnect_task = FALSE
    /\ reconnect_tasks = <<>>
    /\ _reconnect_delay = InitialDelay
    /\ reconnect_failures = 0
    /\ reconnect_skipped = FALSE
    /\ subscribed = {}
    /\ broker_up = TRUE
    /\ sub_pc = "idle"
    /\ sub_topic = <<>>
    /\ wait_time = 0
    /\ sub_outcome = "none"
    /\ sub_todo = <<>>
    /\ _config = NoneConfig
    /\ setup_result = "none"
    /\ connect_returned = "none"
    /\ loop_calls = <<>>
    /\ tasks = <<>>
    /\ _sensor_data = EmptyFn
    /\ _device_last_seen = EmptyFn
    /\ _default_stale_seconds = 300
    /\ _per_type_stale = EmptyFn
    /\ _per_device_stale = EmptyFn
    /\ now = 0
    /\ wall_offset = 0
    /\ query = NoQuery
    /\ query_result = NoQueryResult
    /\ threshold_input = NoThreshold
    /\ threshold_config = NoOverrides
    /\ _event_processor_task = FALSE
    /\ _mqtt_unsubs = {}
    /\ _event_queue = <<>>
    /\ handoff = <<>>
    /\ shutdown_pc = "idle"
    /\ shutdown_raised = {}
    /\ _client_id = "id1"
    /\ entries = <<>>
    /\ flows = [f \in 1..MaxFlows |-> NoFlow]
    /\ flow_result = NoFlowResult
    /\ received = <<>>
    /\ invoked = <<>>
    /\ message_tasks = <<>>
    /\ fired = <<>>
    /\ last_update_success = TRUE
    /\ _error_count = EmptyFn
    /\ error_log = NoErrorLog

\* the integration constructed under a Home Assistant whose async_create_task
\* schedules the task
Constructed == Fields /\ eager = FALSE

InitParse ==
    /\ \/ /\ config \in FilterCatalogs
          /\ in_topic \in ValidTopics \cup InvalidTopics
          /\ in_payload \in Payloads
       \/ /\ config \in MedianCatalogs
          /\ in_topic \in MedianTopics
          /\ in_payload \in MedianPayloads
    /\ parsed = NoneResult
    /\ resolved = NoneStr
    /\ pc = "ready"
    /\ config_file = NoFile
    /\ Constructed

\* the device id the parser looks the allow-list up with (parser_service.py:131-146,
\* 280)
ResolvedDeviceId(cfg, topic) ==
    IF ~_is_valid_topic(topic) THEN NoneStr
    ELSE IF _get_topic_type(topic) = "sensebox" THEN SenseboxDeviceId(cfg, topic)
    ELSE _extract_device_id_from_topic(topic)

ParseMessage ==
    /\ pc = "ready"
    /\ parsed' = parse_message(config, in_topic, in_payload)
    /\ resolved' = ResolvedDeviceId(config, in_topic)
    /\ pc' = "done"
    /\ UNCHANGED <<config, in_topic, in_payload, phase, mqttVars, reconnectVars,
                   dataVars, policyVars, clockVars, brokerVars, apiVars, auxVars>>

NextParse == ParseMessage

SpecParse == InitParse /\ [][NextParse]_vars

(***************************************************************************)
(* Availability thresholds (ConfigService.get_availability_config and the  *)
(* coordinator's policy fields).                                           *)
(***************************************************************************)
\* the values a catalog may spell as text, each with its characters
DurationChars ==
    ("10m" :> <<"1", "0", "m">>) @@
    ("5m" :> <<"5", "m">>) @@
    ("150s" :> <<"1", "5", "0", "s">>) @@
    ("30s" :> <<"3", "0", "s">>) @@
    ("x" :> <<"x">>) @@
    ("1h30m" :> <<"1", "h", "3", "0", "m">>) @@
    ("45m" :> <<"4", "5", "m">>) @@
    ("900s" :> <<"9", "0", "0", "s">>) @@
    ("900" :> <<"9", "0", "0">>) @@
    ("2h" :> <<"2", "h">>) @@
    ("90" :> <<"9", "0">>) @@
    ("0" :> <<"0">>) @@
    ("0m" :> <<"0", "m">>) @@
    ("" :> <<>>) @@
    ("  " :> <<" ", " ">>) @@
    ("5d" :> <<"5", "d">>) @@
    (" 45m " :> <<" ", "4", "5", "m", " ">>) @@
    ("5 M" :> <<"5", " ", "M">>) @@
    ("1H 30M" :> <<"1", "H", " ", "3", "0", "M">>) @@
    ("-5m" :> <<"-", "5", "m">>) @@
    ("1.5h" :> <<"1", ".", "5", "h">>) @@
    ("1h30" :> <<"1", "h", "3", "0">>) @@
    ("abc5m" :> <<"a", "b", "c", "5", "m">>) @@
    ("5min" :> <<"5", "m", "i", "n">>)

Digits == {"0", "1", "2", "3", "4", "5", "6", "7", "8", "9"}
DigitValue ==
    ("0" :> 0) @@ ("1" :> 1) @@ ("2" :> 2) @@ ("3" :> 3) @@ ("4" :> 4) @@
    ("5" :> 5) @@ ("6" :> 6) @@ ("7" :> 7) @@ ("8" :> 8) @@ ("9" :> 9)
Units == {"s", "m", "h"}
\* str.lower() on a character
LowerChar(c) ==
    CASE c = "S" -> "s" [] c = "M" -> "m" [] c = "H" -> "h" [] OTHER -> c

\* value.strip().lower()
RECURSIVE StripLeft(_)
StripLeft(text) ==
    IF text # <<>> /\ Head(text) = " " THEN StripLeft(Tail(text)) ELSE text
RECURSIVE StripRight(_)
StripRight(text) ==
    IF text # <<>> /\ text[Len(text)] = " "
    THEN StripRight(SubSeq(text, 1, Len(text) - 1)) ELSE text
StripLower(text) ==
    LET t == StripRight(StripLeft(text)) IN [i \in 1..Len(t) |-> LowerChar(t[i])]

\* int(num) of the digits s[i..j]
RECURSIVE IntOf(_, _, _)
IntOf(s, i, j) == IF j < i THEN 0 ELSE 10 * IntOf(s, i, j - 1) + DigitValue[s[j]]

\* the end of the longest run of digits (\d+) that starts at s[i]
RECURSIVE DigitRunEnd(_, _)
DigitRunEnd(s, i) ==
    IF i < Len(s) /\ s[i + 1] \in Digits THEN DigitRunEnd(s, i + 1) ELSE i
\* the first position from i on that holds no whitespace (\s*)
RECURSIVE SkipSpaces(_, _)
SkipSpaces(s, i) == IF i <= Len(s) /\ s[i] = " " THEN SkipSpaces(s, i + 1) ELSE i

\* re.findall(r"(\d+)\s*([smh])", s) from position i on: the matches from left
\* to right, not overlapping, whatever stands between them
RECURSIVE FindAll(_, _)
FindAll(s, i) ==
    IF i > Len(s) THEN <<>>
    ELSE IF s[i] \notin Digits THEN FindAll(s, i + 1)
    ELSE LET j == DigitRunEnd(s, i)
             k == SkipSpaces(s, j + 1)
         IN  IF k <= Len(s) /\ s[k] \in Units
             THEN <<[num |-> IntOf(s, i, j), unit |-> s[k]]>> \o FindAll(s, k + 1)
             ELSE FindAll(s, i + 1)

\* the loop that adds the matches up
RECURSIVE TotalSeconds(_)
TotalSeconds(matches) ==
    IF matches = <<>> THEN 0
    ELSE LET n == Head(matches).num
             unit == Head(matches).unit
         IN  (CASE unit = "s" -> n [] unit = "m" -> n * 60 [] unit = "h" -> n * 3600)
             + TotalSeconds(Tail(matches))

\* str.isdigit()
IsDigit(s) == s # <<>> /\ \A i \in 1..Len(s) : s[i] \in Digits

\* the str branch of _parse_to_seconds; 0 stands for None
ParseDurationText(text) ==
    LET s == StripLower(text)
        total == TotalSeconds(FindAll(s, 1))
    IN  IF s = <<>> THEN 0
        ELSE IF total = 0 /\ IsDigit(s) THEN IntOf(s, 1, Len(s)) * 60
        ELSE total

\* the durations of the texts, in seconds
DurationTable == [text \in DOMAIN DurationChars |-> ParseDurationText(DurationChars[text])]

\* _parse_to_seconds; 0 stands for None (every caller tests the result for truth).
\* A JSON number of the model is an int.
_parse_to_seconds(value) ==
    IF value.t = "num" THEN (IF value.n > 0 THEN value.n ELSE 0)
    ELSE IF value.t = "bool" THEN (IF value.b THEN 1 ELSE 0)
    ELSE IF value.t = "str" THEN DurationTable[value.s]
    ELSE 0

\* max(60, p) for every entry that parses to a duration, the others dropped
NormalizeOverrides(raw) ==
    LET keep == {k \in DOMAIN raw : _parse_to_seconds(raw[k]) # 0}
    IN  [k \in keep |-> IF _parse_to_seconds(raw[k]) < 60 THEN 60
                        ELSE _parse_to_seconds(raw[k])]

\* get_availability_config: default_stale_seconds 0 for None
get_availability_config(cfg) ==
    LET availability == cfg.availability
        parsed_default == IF availability.default # Null
                          THEN _parse_to_seconds(availability.default)
                          ELSE _parse_to_seconds(availability.default_stale_seconds)
    IN  [default_stale_seconds |-> IF parsed_default = 0 THEN 0
                                   ELSE IF parsed_default < 60 THEN 60 ELSE parsed_default,
         per_type |-> NormalizeOverrides(availability.per_type),
         per_device |-> NormalizeOverrides(availability.per_device)]

\* {str(k).lower(): int(v) for k, v in raw_per_type.items()}
LowerKeys(f) ==
    [k \in {Lower(x) : x \in DOMAIN f} |->
        f[CHOOSE x \in DOMAIN f : Lower(x) = k /\ \A y \in DOMAIN f : Lower(y) = k => y = x]]

\* the keepalive of mqtt_config, and the floor of the threshold derived from it
Keepalive == 60
BaseKeepalive == IF Keepalive * 4 > 300 THEN Keepalive * 4 ELSE 300

\* get_effective_stale_seconds: per device, then per type, then the default
EffectiveStaleSecondsCaseSensitive(device_id, device_type) ==
    IF device_id \in DOMAIN _per_device_stale THEN _per_device_stale[device_id]
    ELSE IF device_type \notin {NoneStr, ""} /\ device_type \in DOMAIN _per_type_stale
         THEN _per_type_stale[device_type]
    ELSE _default_stale_seconds
get_effective_stale_seconds(device_id, device_type) ==
    IF device_id \in DOMAIN _per_device_stale THEN _per_device_stale[device_id]
    ELSE IF device_type \notin {NoneStr, ""} /\ Lower(device_type) \in DOMAIN _per_type_stale
         THEN _per_type_stale[Lower(device_type)]
    ELSE _default_stale_seconds

(***************************************************************************)
(* Clocks, stored readings and the availability of a device.               *)
(***************************************************************************)
Clock == [monotonic |-> now, time |-> now + wall_offset]

Put(f, k, v) == [x \in DOMAIN f \cup {k} |-> IF x = k THEN v ELSE f[x]]

\* update_sensor_data: self._device_last_seen[device_id] = time.monotonic()
RecordSeenWallClock(seen, device_id, clock) == Put(seen, device_id, clock.time)
RecordSeen(seen, device_id, clock) == Put(seen, device_id, clock.monotonic)

\* get_device_last_seen: dict.get, <<>> for None
get_device_last_seen(device_id) ==
    IF device_id \in DOMAIN _device_last_seen THEN <<_device_last_seen[device_id]>>
    ELSE <<>>

\* SensorBridgeSensor.native_value of a device's meta entity
NativeValueStaleAtThreshold(device_id, device_type) ==
    LET last_seen == get_device_last_seen(device_id)
        stale_after == get_effective_stale_seconds(device_id, device_type)
    IN  IF ~_connected THEN "Offline"
        ELSE IF last_seen = <<>> THEN "Veraltet"
        ELSE IF (Clock.monotonic - last_seen[1]) < stale_after THEN "Online"
        ELSE "Veraltet"
native_value(device_id, device_type) ==
    LET last_seen == get_device_last_seen(device_id)
        stale_after == get_effective_stale_seconds(device_id, device_type)
    IN  IF ~_connected THEN "Offline"
        ELSE IF last_seen = <<>> THEN "Veraltet"
        ELSE IF (Clock.monotonic - last_seen[1]) <= stale_after THEN "Online"
        ELSE "Veraltet"

\* the meta entities sensor.async_setup_entry creates when every cataloged device
\* is selected: one per device with its category as device_type, one per median
\* entity with "median"
MetaEntities(cfg) ==
    LET cats == SelectSeq(cfg.known_devices, LAMBDA c : c.name # "MedianEntities")
        med == get_median_entities(cfg)
    IN  UNION {{[device_id |-> cats[i].devices[j].id, device_type |-> cats[i].name] :
                    j \in 1..Len(cats[i].devices)} : i \in 1..Len(cats)}
        \cup {[device_id |-> med[j].id, device_type |-> "median"] : j \in 1..Len(med)}

\* coordinator._setup_mqtt_topics with every cataloged device selected: the
\* topic_pattern of each entry that has one
MqttTopics(cfg) ==
    LET all == Flatten(cfg.known_devices)
    IN  {all[i].topic_pattern : i \in {j \in 1..Len(all) : all[j].topic_pattern # <<>>}}

\* the list self._mqtt_topics, in the order _setup_mqtt_topics appends to it
MqttTopicList(cfg) ==
    LET all == Flatten(cfg.known_devices)
    IN  SelectSeq([i \in 1..Len(all) |-> all[i].topic_pattern], LAMBDA t : t # <<>>)

(***************************************************************************)
(* The running integration: catalogs, messages and clock steps.            *)
(***************************************************************************)
NoAvailability ==
    [default |-> Null, default_stale_seconds |-> Null, per_type |-> EmptyFn,
     per_device |-> EmptyFn]
\* a type override written with the category's capitals, device overrides as
\* text (one below the floor of 60 s, for a device the catalog does not have)
OverrideAvailability ==
    [default |-> Str("10m"), default_stale_seconds |-> Num(30),
     per_type |-> ("senseBox" :> Num(150)),
     per_device |-> ("median_Naunhof" :> Str("5m")) @@ ("ghost" :> Str("30s"))]
AvailabilityOptions == {NoAvailability, OverrideAvailability}

\* one senseBox and one median feed; the median entity with or without the
\* optional location key
RunCatalog(location, availability) ==
    [known_devices |-> <<
        Category("senseBox", <<Device("sb1", NoneStr, SenseBoxTopic("sb1"), {"temp"})>>),
        Category("MedianEntities",
                 <<Device("median_Naunhof", location, MedianTopic("Naunhof"), {"temp"})>>) >>,
     ignore_rssi_only |-> TRUE,
     availability |-> availability]
RunCatalogs ==
    {RunCatalog(l, a) : l \in {"Naunhof", NoneStr}, a \in AvailabilityOptions}

\* a reading with a field outside the allow-list, nested under "fields" as the
\* devices send it and flat as the median feed sends it
RunPayloads ==
    {Json(Obj("fields" :> Obj(("temp" :> Num(21)) @@ ("hum" :> Num(55))))),
     Json(Obj(("temp" :> Num(21)) @@ ("hum" :> Num(55))))}

\* the clock advances by a threshold's worth or one second more, so that a
\* device is seen exactly at and just past its threshold
TickSteps == {150, 151}
WallStep == 200

Init ==
    /\ config \in RunCatalogs
    /\ in_topic = <<>>
    /\ in_payload = [kind |-> "empty", data |-> Null]
    /\ parsed = NoneResult
    /\ resolved = NoneStr
    /\ pc = "done"
    /\ config_file = NoFile
    /\ Constructed

\* the thresholds async_config_entry_first_refresh configures
ConfigureThresholds ==
    LET avail == get_availability_config(config)
    IN  /\ _default_stale_seconds' =
               IF avail.default_stale_seconds # 0
               THEN (IF avail.default_stale_seconds < 60 THEN 60
                     ELSE avail.default_stale_seconds)
               ELSE BaseKeepalive
        /\ _per_type_stale' = LowerKeys(avail.per_type)
        /\ _per_device_stale' = avail.per_device

\* async_config_entry_first_refresh: topics, connect, subscribe, thresholds.
\* connect() fails (ok false) and the refresh raises, or it returns and each
\* subscribe in turn waits for the broker's CONNACK: the first `skipped` topics
\* time out, the others get their handler; connack tells whether the transport
\* is connected when the refresh ends.
FirstRefresh(ok, connack, skipped) ==
    /\ phase = "constructed"
    /\ ok => broker_up
    /\ skipped \in 0..Len(MqttTopicList(config))
    /\ ~connack => skipped = Len(MqttTopicList(config))
    /\ IF ~ok
       THEN /\ phase' = "failed"
            /\ client' = "stopped"
            /\ UNCHANGED <<_connected, _callbacks, policyVars, subscribed>>
       ELSE /\ phase' = "running"
            /\ client' = "started"
            /\ _connected' = connack
            /\ _callbacks' = {MqttTopicList(config)[i] :
                                 i \in (skipped + 1)..Len(MqttTopicList(config))}
            /\ subscribed' = _callbacks'
            /\ ConfigureThresholds
    /\ _event_processor_task' = (ok \/ _event_processor_task)
    /\ _mqtt_unsubs' = IF ok THEN MqttListeners ELSE _mqtt_unsubs
    /\ UNCHANGED <<config, parseVars, reconnectVars, loop_calls, dataVars, clockVars,
                   broker_up, apiVars, sideVars>>

\* MQTTService._on_connect, on the network thread
OnConnect(rc) ==
    /\ client = "started"
    /\ ~_connected
    /\ broker_up
    /\ _connected' = (rc = 0)
    /\ UNCHANGED <<config, parseVars, phase, client, _callbacks, reconnectVars,
                   loop_calls, dataVars, policyVars, clockVars, brokerVars, apiVars,
                   auxVars>>

\* _start_reconnect_thread_safe, as the event loop runs it: a new _reconnect task
\* unless the handle holds one that is not done
StartReconnectNever(handle, alive) == [handle |-> handle, tasks |-> alive]
StartReconnectAlways(handle, alive) ==
    [handle |-> TRUE, tasks |-> Append(alive, "sleeping")]
_start_reconnect_thread_safe(handle, alive) ==
    IF handle THEN [handle |-> handle, tasks |-> alive]
    ELSE [handle |-> TRUE, tasks |-> Append(alive, "sleeping")]

\* MQTTService._on_disconnect, with the _start_reconnect_thread_safe call it hands
\* to the event loop after an unexpected disconnect (rc # 0)
OnDisconnect(rc) ==
    /\ client = "started"
    /\ _connected
    /\ Len(reconnect_tasks) < MaxReconnectTasks
    /\ _connected' = FALSE
    /\ LET started == _start_reconnect_thread_safe(_reconnect_task, reconnect_tasks)
       IN  /\ _reconnect_task' = IF rc # 0 THEN started.handle ELSE _reconnect_task
           /\ reconnect_tasks' = IF rc # 0 THEN started.tasks ELSE reconnect_tasks
    /\ reconnect_skipped' = IF rc # 0 /\ _reconnect_task THEN TRUE ELSE reconnect_skipped
    /\ subscribed' = {}
    /\ UNCHANGED <<config, parseVars, phase, client, _callbacks, loop_calls,
                   _reconnect_delay, reconnect_failures, dataVars, policyVars, clockVars,
                   broker_up, apiVars, auxVars>>

\* self._reconnect_delay = min(self._reconnect_delay * 1.2, 30), the float carried
\* to the microsecond
DelayAfterFailureUncapped(delay) == (delay * 12) \div 10
DelayAfterFailure(delay) ==
    IF (delay * 12) \div 10 < DelayCap THEN (delay * 12) \div 10 ELSE DelayCap

Remove(seq, i) == SubSeq(seq, 1, i - 1) \o SubSeq(seq, i + 1, Len(seq))

\* a _reconnect task wakes from its sleep: it ends if the transport is connected
\* (finally: the handle is cleared), else it calls connect()
ReconnectWake(i) ==
    /\ i \in 1..Len(reconnect_tasks)
    /\ reconnect_tasks[i] = "sleeping"
    /\ IF _connected
       THEN /\ reconnect_tasks' = Remove(reconnect_tasks, i)
            /\ _reconnect_task' = FALSE
            /\ reconnect_skipped' = FALSE
       ELSE /\ reconnect_tasks' = [reconnect_tasks EXCEPT ![i] = "connecting"]
            /\ UNCHANGED <<_reconnect_task, reconnect_skipped>>
    /\ UNCHANGED <<config, parseVars, phase, mqttVars, _reconnect_delay,
                   reconnect_failures, dataVars, policyVars, clockVars, brokerVars,
                   apiVars, auxVars>>

\* connect() returns to the _reconnect task: the delay is reset after a success
\* and increased after a failure; finally the handle is cleared
ReconnectDone(i, ok) ==
    /\ i \in 1..Len(reconnect_tasks)
    /\ reconnect_tasks[i] = "connecting"
    /\ ok => broker_up
    /\ client' = IF ok THEN "started" ELSE "stopped"
    /\ subscribed' = {}
    /\ _reconnect_delay' = IF ok THEN InitialDelay ELSE DelayAfterFailure(_reconnect_delay)
    /\ reconnect_failures' =
           IF ok THEN 0
           ELSE IF reconnect_failures < MaxFailures THEN reconnect_failures + 1
           ELSE MaxFailures
    /\ reconnect_tasks' = Remove(reconnect_tasks, i)
    /\ _reconnect_task' = FALSE
    /\ reconnect_skipped' = FALSE
    /\ _event_processor_task' = (ok \/ _event_processor_task)
    /\ UNCHANGED _mqtt_unsubs
    /\ UNCHANGED <<config, parseVars, phase, _connected, _callbacks, loop_calls,
                   dataVars, policyVars, clockVars, broker_up, apiVars, sideVars>>

\* _async_update_data with the except clause left out: UpdateFailed reaches the
\* caller
UpdateDataUncaught(connected, success) ==
    [attempts |-> IF connected THEN 0 ELSE 1,
     raised |-> ~connected /\ ~success]
\* coordinator._async_update_data: one connect() when is_connected is False; the
\* UpdateFailed raised for a failed connect() is caught by "except Exception",
\* and both paths return self._sensor_data.copy()
_async_update_data(connected, success) ==
    [attempts |-> IF connected THEN 0 ELSE 1,
     raised |-> FALSE]

\* one refresh of the DataUpdateCoordinator: self.data = await
\* self._async_update_data(), last_update_success False if that raised.  The
\* bookkeeping of the handle_error call of the failure path is HandleError's.
HealthTick(ok) ==
    LET update == _async_update_data(_connected, ok)
    IN  /\ phase = "running"
        /\ ok => broker_up
        /\ client' = IF update.attempts = 0 THEN client
                     ELSE IF ok THEN "started" ELSE "stopped"
        /\ subscribed' = IF update.attempts = 0 THEN subscribed ELSE {}
        /\ _sensor_data' = IF update.raised THEN _sensor_data
                           ELSE [d \in DOMAIN _sensor_data |-> _sensor_data[d]]
        /\ _event_processor_task' =
               ((update.attempts > 0 /\ ok) \/ _event_processor_task)
        /\ last_update_success' = ~update.raised
        /\ UNCHANGED _mqtt_unsubs
        /\ UNCHANGED <<config, parseVars, phase, _connected, _callbacks, reconnectVars,
                       loop_calls, tasks, _device_last_seen, policyVars, clockVars,
                       broker_up, apiVars, queryVars, thresholdVars, lifeVars,
                       flowVars, deliverVars, errorVars>>

\* MQTTService._on_message, on the network thread: a topic with a handler is
\* handed to the event loop.  The broker delivers the topics of the session.
OnMessage(topic, payload) ==
    /\ client = "started"
    /\ _connected
    /\ topic \in subscribed
    /\ Len(loop_calls) + Len(tasks) < MaxInFlight
    /\ loop_calls' = IF topic \in _callbacks
                     THEN Append(loop_calls, [topic |-> topic, payload |-> payload])
                     ELSE loop_calls
    /\ UNCHANGED <<config, parseVars, phase, client, _connected, _callbacks,
                   reconnectVars, dataVars, policyVars, clockVars, brokerVars, apiVars,
                   auxVars>>

\* the event loop runs the oldest handed-over callback: _execute_callback_safe,
\* _mqtt_message_wrapper and _handle_mqtt_message up to the first suspension of
\* update_sensor_data (the store and the last-seen stamp)
HandleMqttMessage ==
    /\ loop_calls # <<>>
    /\ LET msg == Head(loop_calls)
           parsed_data == parse_message(config, msg.topic, msg.payload)
       IN  IF ~parsed_data.ok
           THEN UNCHANGED dataVars
           ELSE /\ _sensor_data' =
                       Put(_sensor_data, parsed_data.device_id, parsed_data.sensor_data)
                /\ _device_last_seen' =
                       RecordSeen(_device_last_seen, parsed_data.device_id, Clock)
                /\ tasks' = Append(tasks, parsed_data.device_id)
    /\ loop_calls' = Tail(loop_calls)
    /\ UNCHANGED <<config, parseVars, phase, client, _connected, _callbacks,
                   reconnectVars, policyVars, clockVars, brokerVars, apiVars, auxVars>>

\* update_sensor_data resumes: entities, the change event, async_set_updated_data
FinishUpdate(i) ==
    /\ i \in 1..Len(tasks)
    /\ tasks' = SubSeq(tasks, 1, i - 1) \o SubSeq(tasks, i + 1, Len(tasks))
    /\ UNCHANGED <<config, parseVars, phase, mqttVars, reconnectVars, _sensor_data,
                   _device_last_seen, policyVars, clockVars, brokerVars, apiVars,
                   auxVars>>

\* time passes
Tick(dt) ==
    /\ now + dt <= MaxTime
    /\ now' = now + dt
    /\ UNCHANGED <<config, parseVars, phase, mqttVars, reconnectVars, dataVars,
                   policyVars, wall_offset, brokerVars, apiVars, auxVars>>

\* the system clock is set back or forth; the monotonic clock is not affected
SetSystemClock ==
    /\ wall_offset' = IF wall_offset = 0 THEN -WallStep ELSE 0
    /\ UNCHANGED <<config, parseVars, phase, mqttVars, reconnectVars, dataVars,
                   policyVars, now, brokerVars, apiVars, auxVars>>

RunTopics == {SenseBoxTopic("sb1"), MedianTopic("Naunhof")}

Next ==
    \/ \E ok \in BOOLEAN, connack \in BOOLEAN, skipped \in 0..MaxTopics :
           FirstRefresh(ok, connack, skipped)
    \/ \E rc \in {0, 5} : OnConnect(rc)
    \/ \E rc \in {0, 7} : OnDisconnect(rc)
    \/ \E ok \in BOOLEAN : HealthTick(ok)
    \/ \E topic \in RunTopics, payload \in RunPayloads : OnMessage(topic, payload)
    \/ HandleMqttMessage
    \/ \E i \in 1..MaxInFlight : FinishUpdate(i)
    \/ \E dt \in TickSteps : Tick(dt)
    \/ SetSystemClock

Spec == Init /\ [][Next]_vars

(***************************************************************************)
(* The connection and its reconnect task (specification SpecReconnect).    *)
(***************************************************************************)
\* MQTTService.unsubscribe: nothing without a client or without a connection;
\* else the handler goes when the client accepted the request (result)
unsubscribe(handlers, topic, has_client, connected, result) ==
    IF ~has_client \/ ~connected THEN handlers
    ELSE IF result THEN handlers \ {topic}
    ELSE handlers

\* MQTTService.disconnect: with a client, the event processor and the reconnect
\* task are cancelled, the client's loop is stopped and the client disconnected
disconnect ==
    /\ subscribed' = IF client = "none" THEN subscribed ELSE {}
    /\ client' = IF client = "none" THEN client ELSE "stopped"
    /\ _connected' = IF client = "none" THEN _connected ELSE FALSE
    /\ _reconnect_task' = IF client = "none" THEN _reconnect_task ELSE FALSE
    /\ reconnect_tasks' = IF client = "none" THEN reconnect_tasks ELSE <<>>
    /\ reconnect_skipped' = IF client = "none" THEN reconnect_skipped ELSE FALSE
    /\ _event_processor_task' =
           IF client = "none" THEN _event_processor_task ELSE FALSE

\* coordinator.async_shutdown: _unsubscribe_from_topics, then
\* MQTTService.disconnect, then the bus listeners are released
Shutdown(result) ==
    /\ phase = "running"
    /\ phase' = "stopped"
    /\ _callbacks' = {t \in _callbacks :
                         t \in unsubscribe(_callbacks, t, client # "none", _connected, result)}
    /\ disconnect
    /\ _mqtt_unsubs' = {}
    /\ UNCHANGED <<config, parseVars, loop_calls, _reconnect_delay, reconnect_failures,
                   dataVars, policyVars, clockVars, broker_up, apiVars, sideVars>>

\* environment: the broker becomes unreachable, or reachable again
BrokerDown ==
    /\ broker_up
    /\ broker_up' = FALSE
    /\ UNCHANGED <<config, parseVars, phase, mqttVars, reconnectVars, dataVars,
                   policyVars, clockVars, subscribed, apiVars, auxVars>>

BrokerUp ==
    /\ ~broker_up
    /\ broker_up' = TRUE
    /\ UNCHANGED <<config, parseVars, phase, mqttVars, reconnectVars, dataVars,
                   policyVars, clockVars, subscribed, apiVars, auxVars>>

InitReconnect ==
    /\ config = RunCatalog("Naunhof", NoAvailability)
    /\ in_topic = <<>>
    /\ in_payload = [kind |-> "empty", data |-> Null]
    /\ parsed = NoneResult
    /\ resolved = NoneStr
    /\ pc = "done"
    /\ config_file = NoFile
    /\ Constructed

NextReconnect ==
    \/ \E ok \in BOOLEAN, connack \in BOOLEAN, skipped \in 0..MaxTopics :
           FirstRefresh(ok, connack, skipped)
    \/ \E rc \in {0, 5} : OnConnect(rc)
    \/ \E rc \in {0, 7} : OnDisconnect(rc)
    \/ \E i \in 1..MaxReconnectTasks : ReconnectWake(i)
    \/ \E i \in 1..MaxReconnectTasks, ok \in BOOLEAN : ReconnectDone(i, ok)
    \/ \E ok \in BOOLEAN : HealthTick(ok)
    \/ \E result \in BOOLEAN : Shutdown(result)
    \/ BrokerDown
    \/ BrokerUp

SpecReconnect == InitReconnect /\ [][NextReconnect]_vars

\* The event loop resumes a reconnect task whose sleep or connect() has ended,
\* and the update coordinator's timer fires the health tick every
\* DEFAULT_SCAN_INTERVAL seconds.  Nothing is assumed of the broker.
ReconnectFairness ==
    /\ WF_vars(\E i \in 1..MaxReconnectTasks : ReconnectWake(i))
    /\ WF_vars(\E i \in 1..MaxReconnectTasks, ok \in BOOLEAN : ReconnectDone(i, ok))
    /\ WF_vars(\E ok \in BOOLEAN : HealthTick(ok))

SpecReconnectFair == SpecReconnect /\ ReconnectFairness

(***************************************************************************)
(* subscribe and unsubscribe, call by call (specification SpecSubscribe):  *)
(* the first refresh and the shutdown with the coordinator's loops over    *)
(* _mqtt_topics unrolled, and subscribe with its polling loop.             *)
(***************************************************************************)
\* async_config_entry_first_refresh up to the return of connect()
RefreshConnect(ok) ==
    /\ phase = "constructed"
    /\ ok => broker_up
    /\ phase' = IF ok THEN "subscribing" ELSE "failed"
    /\ client' = IF ok THEN "started" ELSE "stopped"
    /\ sub_todo' = IF ok THEN MqttTopicList(config) ELSE sub_todo
    /\ _event_processor_task' = (ok \/ _event_processor_task)
    /\ UNCHANGED _mqtt_unsubs
    /\ UNCHANGED <<config, parseVars, _connected, _callbacks, loop_calls, reconnectVars,
                   dataVars, policyVars, clockVars, brokerVars, sub_pc, sub_topic,
                   wait_time, sub_outcome, setupVars, sideVars>>

\* _subscribe_to_topics calls subscribe for the next topic; without a client
\* subscribe returns at once
SubscribeCall ==
    /\ phase = "subscribing"
    /\ sub_pc = "idle"
    /\ sub_todo # <<>>
    /\ sub_topic' = Head(sub_todo)
    /\ sub_todo' = Tail(sub_todo)
    /\ wait_time' = 0
    /\ sub_pc' = IF client = "none" THEN "idle" ELSE "waiting"
    /\ sub_outcome' = IF client = "none" THEN "no_client" ELSE "none"
    /\ UNCHANGED <<config, parseVars, phase, mqttVars, reconnectVars, dataVars,
                   policyVars, clockVars, brokerVars, setupVars, auxVars>>

\* while not self._connected and wait_time < max_wait
KeepWaiting(connected, waited) == ~connected /\ waited < SubscribePolls

\* if not self._connected: return; else the handler is registered
RegistersAlways(connected) == TRUE
RegistersAfterWait(connected) == connected

\* subscribe evaluates its loop condition: another sleep of 0.1 s, or the loop
\* ends and subscribe returns (timeout) or registers the handler and hands
\* client.subscribe to the executor
SubscribePoll ==
    /\ sub_pc = "waiting"
    /\ IF KeepWaiting(_connected, wait_time)
       THEN /\ wait_time' = wait_time + 1
            /\ UNCHANGED <<sub_pc, sub_outcome, _callbacks>>
       ELSE IF RegistersAfterWait(_connected)
       THEN /\ _callbacks' = _callbacks \cup {sub_topic}
            /\ sub_pc' = "subscribing"
            /\ UNCHANGED <<wait_time, sub_outcome>>
       ELSE /\ sub_pc' = "idle"
            /\ sub_outcome' = "timeout"
            /\ UNCHANGED <<wait_time, _callbacks>>
    /\ UNCHANGED <<config, parseVars, phase, client, _connected, loop_calls,
                   reconnectVars, dataVars, policyVars, clockVars, brokerVars, sub_topic,
                   sub_todo, setupVars, auxVars>>

\* client.subscribe returns: MQTT_ERR_SUCCESS (result) needs a connection
SubscribeIssue(result) ==
    /\ sub_pc = "subscribing"
    /\ result => (_connected /\ client = "started")
    /\ subscribed' = IF result THEN subscribed \cup {sub_topic} ELSE subscribed
    /\ sub_pc' = "idle"
    /\ sub_outcome' = IF result THEN "subscribed" ELSE "error"
    /\ UNCHANGED <<config, parseVars, phase, mqttVars, reconnectVars, dataVars,
                   policyVars, clockVars, broker_up, sub_topic, wait_time, sub_todo,
                   setupVars, auxVars>>

\* the rest of async_config_entry_first_refresh
RefreshFinish ==
    /\ phase = "subscribing"
    /\ sub_pc = "idle"
    /\ sub_todo = <<>>
    /\ phase' = "running"
    /\ ConfigureThresholds
    /\ _mqtt_unsubs' = MqttListeners
    /\ UNCHANGED _event_processor_task
    /\ UNCHANGED <<config, parseVars, mqttVars, reconnectVars, dataVars, clockVars,
                   brokerVars, apiVars, sideVars>>

\* async_shutdown enters _unsubscribe_from_topics
ShutdownBegin ==
    /\ phase = "running"
    /\ phase' = "unsubscribing"
    /\ sub_todo' = MqttTopicList(config)
    /\ UNCHANGED <<config, parseVars, mqttVars, reconnectVars, dataVars, policyVars,
                   clockVars, brokerVars, sub_pc, sub_topic, wait_time, sub_outcome,
                   setupVars, auxVars>>

\* _unsubscribe_from_topics calls unsubscribe for the next topic
Unsubscribe(result) ==
    /\ phase = "unsubscribing"
    /\ sub_todo # <<>>
    /\ result => (_connected /\ client = "started")
    /\ _callbacks' =
           unsubscribe(_callbacks, Head(sub_todo), client # "none", _connected, result)
    /\ subscribed' = IF result THEN subscribed \ {Head(sub_todo)} ELSE subscribed
    /\ sub_todo' = Tail(sub_todo)
    /\ UNCHANGED <<config, parseVars, phase, client, _connected, loop_calls,
                   reconnectVars, dataVars, policyVars, clockVars, broker_up, sub_pc,
                   sub_topic, wait_time, sub_outcome, setupVars, auxVars>>

\* async_shutdown after _unsubscribe_from_topics: self._mqtt_topics.clear() and
\* MQTTService.disconnect
ShutdownDisconnect ==
    /\ phase = "unsubscribing"
    /\ sub_todo = <<>>
    /\ phase' = "stopped"
    /\ disconnect
    /\ _mqtt_unsubs' = {}
    /\ UNCHANGED <<config, parseVars, _callbacks, loop_calls, _reconnect_delay,
                   reconnect_failures, dataVars, policyVars, clockVars, broker_up,
                   apiVars, sideVars>>

InitSubscribe ==
    /\ config = RunCatalog("Naunhof", NoAvailability)
    /\ in_topic = <<>>
    /\ in_payload = [kind |-> "empty", data |-> Null]
    /\ parsed = NoneResult
    /\ resolved = NoneStr
    /\ pc = "done"
    /\ config_file = NoFile
    /\ Constructed

NextSubscribe ==
    \/ \E ok \in BOOLEAN : RefreshConnect(ok)
    \/ SubscribeCall
    \/ SubscribePoll
    \/ \E result \in BOOLEAN : SubscribeIssue(result)
    \/ RefreshFinish
    \/ \E rc \in {0, 5} : OnConnect(rc)
    \/ \E rc \in {0, 7} : OnDisconnect(rc)
    \/ ShutdownBegin
    \/ \E result \in BOOLEAN : Unsubscribe(result)
    \/ ShutdownDisconnect

SpecSubscribe == InitSubscribe /\ [][NextSubscribe]_vars

\* The event loop resumes subscribe after each sleep and after the executor has
\* run client.subscribe.
SubscribeFairness ==
    /\ WF_vars(SubscribePoll)
    /\ WF_vars(\E result \in BOOLEAN : SubscribeIssue(result))

SpecSubscribeFair == SpecSubscribe /\ SubscribeFairness

(***************************************************************************)
(* Setting up a config entry from a catalog file (specification SpecSetup).*)
(* The sections of the file are JSON values; the section known_devices,    *)
(* when it is an object, stands for the catalog in the variable config.    *)
(***************************************************************************)
required_keys == {"mqtt_config", "known_devices", "sensor_categories", "field_mapping"}

\* load_config with self._config None: the parsed file, or {} when the file is
\* missing, is not JSON or lacks a required key
ReadConfigFile(file) ==
    IF ~file.exists THEN EmptyFn
    ELSE IF ~file.json THEN EmptyFn
    ELSE IF \E key \in required_keys : key \notin DOMAIN file.sections THEN EmptyFn
    ELSE file.sections

\* ConfigService.load_config: the cached value once there is one
load_config(cache, file) ==
    IF cache.loaded THEN cache ELSE [loaded |-> TRUE, dict |-> ReadConfigFile(file)]

\* config.get(key, {}) of get_devices, get_mqtt_config, get_sensor_categories
\* and get_field_mapping
Section(dict, key) == IF key \in DOMAIN dict THEN dict[key] ELSE EmptyObj

\* ConfigService.validate_config on the loaded config
validate_config(dict) ==
    /\ \A key \in required_keys : key \in DOMAIN dict
    /\ dict["mqtt_config"].t = "obj"
    /\ "broker_url" \in DOMAIN dict["mqtt_config"].o
    /\ "topics" \in DOMAIN dict["mqtt_config"].o
    /\ dict["known_devices"].t = "obj"

\* the broker URLs of the inputs, as startswith("wss://"), replace and the two
\* splits of _parse_broker_url take them apart
UrlParts ==
    ("wss://broker:8883/mqtt" :>
        [wss |-> TRUE, host_port |-> <<"broker", "8883">>, path |-> "/mqtt"])
    @@ ("wss://broker" :> [wss |-> TRUE, host_port |-> <<"broker">>, path |-> "/"])
    @@ ("wss://broker:abc" :> [wss |-> TRUE, host_port |-> <<"broker", "abc">>, path |-> "/"])
    @@ ("mqtt://broker:1883" :>
        [wss |-> FALSE, host_port |-> <<"mqtt", "//broker", "1883">>, path |-> "/"])
    @@ ("ws://broker:8080/mqtt" :>
        [wss |-> FALSE, host_port |-> <<"ws", "//broker", "8080">>, path |-> "/mqtt"])
\* int(): the decimal strings of the inputs
IntTable == ("8883" :> 8883) @@ ("1883" :> 1883) @@ ("8080" :> 8080)

\* MQTTService._parse_broker_url; ok false stands for the ValueError it raises
ParseAnyScheme(url) ==
    [ok |-> TRUE, host |-> UrlParts[url.s].host_port[1], port |-> 443]
_parse_broker_url(url) ==
    IF url.t # "str" THEN [ok |-> FALSE]
    ELSE IF ~UrlParts[url.s].wss THEN [ok |-> FALSE]
    ELSE LET host_port == UrlParts[url.s].host_port
         IN  IF Len(host_port) = 2
             THEN IF host_port[2] \in DOMAIN IntTable
                  THEN [ok |-> TRUE, host |-> host_port[1], port |-> IntTable[host_port[2]]]
                  ELSE [ok |-> FALSE]
             ELSE [ok |-> TRUE, host |-> host_port[1], port |-> 443]

\* mqtt_config.get("broker_url")
BrokerUrl(dict) ==
    LET mqtt_config == Section(dict, "mqtt_config")
    IN  IF "broker_url" \in DOMAIN mqtt_config.o THEN mqtt_config.o["broker_url"] ELSE Null

\* MQTTService.connect: what it returns and the client it leaves.  Without a
\* URL and with a URL _parse_broker_url rejects it returns False before it
\* touches the client; else the old client is stopped and a new one made, which
\* is started when client.connect reaches the broker.
connect(dict, old_client, reachable) ==
    IF ~Truthy(BrokerUrl(dict))
    THEN [returned |-> "False", client |-> old_client, replaced |-> FALSE]
    ELSE IF ~_parse_broker_url(BrokerUrl(dict)).ok
    THEN [returned |-> "False", client |-> old_client, replaced |-> FALSE]
    ELSE IF reachable
    THEN [returned |-> "True", client |-> "started", replaced |-> TRUE]
    ELSE [returned |-> "False", client |-> "stopped", replaced |-> TRUE]

\* a first load_config call ahead of the setup (the config flow validates the
\* catalog with the same ConfigService)
LoadConfig ==
    /\ ~_config.loaded
    /\ _config' = load_config(_config, config_file)
    /\ UNCHANGED <<config, parseVars, phase, mqttVars, reconnectVars, dataVars,
                   policyVars, clockVars, brokerVars, subscribeVars, config_file,
                   setup_result, connect_returned, auxVars>>

\* _setup_mqtt_topics raises: get_device_by_id calls known_devices.items()
SetupTopicsRaises(dict) == Section(dict, "known_devices").t # "obj"

\* self._mqtt_topics: the patterns of the selected devices the loaded catalog
\* has
SetupTopics(dict) ==
    IF "known_devices" \in DOMAIN dict THEN MqttTopicList(config) ELSE <<>>

\* what the setup makes of the result of validate_config:
\* _async_initialize_services logs the failure and returns None like after a
\* success, and async_setup_entry goes on
SetupAborts(valid) == FALSE

\* async_setup_entry: _async_initialize_services (with validate_config), the
\* coordinator and its first refresh (topics, connect, subscribe, thresholds),
\* the platforms
SetupEntry(reachable, connack, skipped) ==
    /\ phase = "constructed"
    /\ reachable => broker_up
    /\ LET loaded == load_config(_config, config_file)
           dict == loaded.dict
           topics == SetupTopics(dict)
           conn == connect(dict, client, reachable)
       IN  /\ _config' = loaded
           /\ skipped \in 0..Len(topics)
           /\ ~connack => skipped = Len(topics)
           /\ IF SetupAborts(validate_config(dict)) \/ SetupTopicsRaises(dict)
              THEN /\ phase' = "failed"
                   /\ setup_result' = "False"
                   /\ UNCHANGED <<client, _connected, _callbacks, subscribed,
                                  policyVars, connect_returned>>
              ELSE /\ connect_returned' = conn.returned
                   /\ client' = conn.client
                   /\ IF conn.returned # "True"
                      THEN /\ phase' = "failed"
                           /\ setup_result' = "False"
                           /\ subscribed' = IF conn.replaced THEN {} ELSE subscribed
                           /\ UNCHANGED <<_connected, _callbacks, policyVars>>
                      ELSE /\ phase' = "running"
                           /\ setup_result' = "True"
                           /\ _connected' = connack
                           /\ _callbacks' =
                                  {topics[i] : i \in (skipped + 1)..Len(topics)}
                           /\ subscribed' = _callbacks'
                           /\ ConfigureThresholds
           /\ LET started == /\ ~SetupAborts(validate_config(dict))
                              /\ ~SetupTopicsRaises(dict)
                              /\ conn.returned = "True"
              IN  /\ _event_processor_task' = (started \/ _event_processor_task)
                  /\ _mqtt_unsubs' = IF started THEN MqttListeners ELSE _mqtt_unsubs
    /\ UNCHANGED <<config, parseVars, loop_calls, reconnectVars, dataVars, clockVars,
                   broker_up, subscribeVars, config_file, sideVars>>

\* the catalog files of the runs
MqttConfigs ==
    {Obj(url @@ topics) :
        url \in {EmptyFn} \cup {"broker_url" :> Str(text) : text \in DOMAIN UrlParts}
                \cup {"broker_url" :> Str(""), "broker_url" :> Null},
        topics \in {EmptyFn, "topics" :> EmptyObj}}
FullMqttConfig == Obj(("broker_url" :> Str("wss://broker:8883/mqtt")) @@ ("topics" :> EmptyObj))
KnownDevicesObject == Obj(("senseBox" :> Arr) @@ ("MedianEntities" :> Arr))
FileSections(mqtt_config, known_devices) ==
    ("mqtt_config" :> mqtt_config) @@ ("known_devices" :> known_devices)
    @@ ("sensor_categories" :> Obj("temperature" :> Arr))
    @@ ("field_mapping" :> Obj("temp" :> Str("temperature")))
SectionsOf(f, keys) == [k \in keys |-> f[k]]
CatalogFiles ==
    {NoFile, [exists |-> TRUE, json |-> FALSE, sections |-> EmptyFn]}
    \cup {[exists |-> TRUE, json |-> TRUE,
           sections |-> SectionsOf(FileSections(FullMqttConfig, KnownDevicesObject), keys)] :
              keys \in SUBSET required_keys}
    \cup {[exists |-> TRUE, json |-> TRUE, sections |-> FileSections(mqtt_config, known)] :
              mqtt_config \in MqttConfigs, known \in {KnownDevicesObject, Arr}}

InitSetup ==
    /\ config = RunCatalog("Naunhof", NoAvailability)
    /\ in_topic = <<>>
    /\ in_payload = [kind |-> "empty", data |-> Null]
    /\ parsed = NoneResult
    /\ resolved = NoneStr
    /\ pc = "done"
    /\ config_file \in CatalogFiles
    /\ Constructed

NextSetup ==
    \/ LoadConfig
    \/ \E reachable \in BOOLEAN, connack \in BOOLEAN, skipped \in 0..MaxTopics :
           SetupEntry(reachable, connack, skipped)
    \/ \E rc \in {0, 5} : OnConnect(rc)
    \/ \E result \in BOOLEAN : Shutdown(result)

SpecSetup == InitSetup /\ [][NextSetup]_vars

(***************************************************************************)
(* The catalog queries of ConfigService (specification SpecQuery).  The    *)
(* catalog is the cached dict every get_devices() returns; a device of it  *)
(* gains the key "type" when the code writes one into its dict.            *)
(***************************************************************************)
\* device["type"] = value on a dict, or on a copy of it
WithType(device, value) ==
    [k \in DOMAIN device \cup {"type"} |-> IF k = "type" THEN value ELSE device[k]]

\* what a query returned: the dicts it returned (none: None or []), or an
\* exception
Returned(items) == [raised |-> FALSE, items |-> items]

\* the loops of get_device_by_id over devices.items() up to the first device
\* with the id: its dict in the catalog gets the category as "type"
RECURSIVE TypeFirstMatch(_, _)
TypeFirstMatch(cats, device_id) ==
    IF cats = <<>> THEN <<>>
    ELSE LET c == Head(cats)
             i == FirstIndex({k \in 1..Len(c.devices) : c.devices[k].id = device_id})
         IN  IF i # 0
             THEN <<[c EXCEPT !.devices[i] = WithType(@, c.name)]>> \o Tail(cats)
             ELSE <<c>> \o TypeFirstMatch(Tail(cats), device_id)

\* await config_service.get_device_by_id(device_id)
GetDeviceById(device_id) ==
    LET all == Flatten(config.known_devices)
        i == FirstIndex({k \in 1..Len(all) : all[k].id = device_id})
        med == get_median_entities(config)
        m == FirstIndex({k \in 1..Len(med) :
                            med[k].id = device_id \/ med[k].location = device_id})
    IN  /\ query' = [op |-> "get_device_by_id", arg |-> device_id]
        /\ config' = [config EXCEPT !.known_devices = TypeFirstMatch(@, device_id)]
        /\ query_result' =
               IF i # 0 THEN Returned(<<Flatten(config'.known_devices)[i]>>)
               ELSE IF m # 0 THEN Returned(<<[id |-> device_id, type |-> "median"]>>)
               ELSE Returned(<<>>)
        /\ UNCHANGED <<runVars, thresholdVars, lifeVars, taskVars, flowVars, moreVars>>

\* await config_service.get_median_by_id(median_id): the first of the typed
\* copies get_median_entities() makes
GetMedianById(median_id) ==
    LET med == get_median_entities(config)
        m == FirstIndex({k \in 1..Len(med) : med[k].id = median_id})
    IN  /\ query' = [op |-> "get_median_by_id", arg |-> median_id]
        /\ query_result' =
               IF m # 0 THEN Returned(<<WithType(med[m], "median")>>) ELSE Returned(<<>>)
        /\ UNCHANGED <<config, runVars, thresholdVars, lifeVars, taskVars, flowVars, moreVars>>

\* await config_service.get_devices_by_type(device_type): the catalog's list
GetDevicesByType(device_type) ==
    /\ query' = [op |-> "get_devices_by_type", arg |-> device_type]
    /\ query_result' = Returned(devices_of(config, device_type))
    /\ UNCHANGED <<config, runVars, thresholdVars, lifeVars, taskVars, flowVars, moreVars>>

\* two senseBoxes, a device of another category and a median feed
QueryCatalog ==
    [known_devices |-> <<
        Category("senseBox", <<Device("sb1", NoneStr, SenseBoxTopic("sb1"), {"temp"}),
                               Device("sb2", NoneStr, SenseBoxTopic("sb2"), {"temp"})>>),
        Category("Temperature",
                 <<Device("t1", NoneStr, SpecializedTopic("t1"), {"temp"})>>),
        Category("MedianEntities",
                 <<Device("median_Naunhof", "Naunhof", MedianTopic("Naunhof"),
                          {"temp"})>>) >>,
     ignore_rssi_only |-> TRUE,
     availability |-> NoAvailability]
\* ids, a median location and an id the catalog does not have
QueryIds == {"sb1", "sb2", "t1", "median_Naunhof", "Naunhof", "ghost"}
QueryTypes == {"senseBox", "Temperature", "MedianEntities", "ghost"}

InitQuery ==
    /\ config = QueryCatalog
    /\ in_topic = <<>>
    /\ in_payload = [kind |-> "empty", data |-> Null]
    /\ parsed = NoneResult
    /\ resolved = NoneStr
    /\ pc = "done"
    /\ config_file = NoFile
    /\ Constructed

NextQuery ==
    \/ \E device_id \in QueryIds : GetDeviceById(device_id)
    \/ \E median_id \in QueryIds : GetMedianById(median_id)
    \/ \E device_type \in QueryTypes : GetDevicesByType(device_type)

SpecQuery == InitQuery /\ [][NextQuery]_vars

(***************************************************************************)
(* Threshold parsing (specification SpecThreshold): one raw value in one   *)
(* place of the catalog's availability section, and the thresholds         *)
(* get_availability_config reads from it.                                  *)
(***************************************************************************)
\* the availability section with the value as "default", as
\* "default_stale_seconds", as the per_type entry of senseBox or as the
\* per_device entry of sb1
AvailabilityWith(slot, value) ==
    [default |-> IF slot = "default" THEN value ELSE Null,
     default_stale_seconds |-> IF slot = "default_stale_seconds" THEN value ELSE Null,
     per_type |-> IF slot = "per_type" THEN ("senseBox" :> value) ELSE EmptyFn,
     per_device |-> IF slot = "per_device" THEN ("sb1" :> value) ELSE EmptyFn]

\* await config_service.get_availability_config() on that catalog
GetAvailabilityConfig(slot, value) ==
    /\ threshold_input' = [slot |-> slot, value |-> value]
    /\ threshold_config' =
           get_availability_config([availability |-> AvailabilityWith(slot, value)])
    /\ UNCHANGED <<config, runVars, queryVars, lifeVars, taskVars, flowVars, moreVars>>

\* JSON ints around zero and around the floor of 60 s, the other JSON kinds
\* and the texts
MaxBelowZero == 3
MaxRaw == 75
ThresholdValues ==
    {Num(n) : n \in (0 - MaxBelowZero)..MaxRaw} \cup {Bool(TRUE), Bool(FALSE), Null}
        \cup {Str(text) : text \in DOMAIN DurationChars}
ThresholdSlots == {"default", "default_stale_seconds", "per_type", "per_device"}

InitThreshold ==
    /\ config = RunCatalog("Naunhof", NoAvailability)
    /\ in_topic = <<>>
    /\ in_payload = [kind |-> "empty", data |-> Null]
    /\ parsed = NoneResult
    /\ resolved = NoneStr
    /\ pc = "done"
    /\ config_file = NoFile
    /\ Constructed

NextThreshold ==
    \E slot \in ThresholdSlots, value \in ThresholdValues :
        GetAvailabilityConfig(slot, value)

SpecThreshold == InitThreshold /\ [][NextThreshold]_vars

(***************************************************************************)
(* Shutdown, step by step, next to the network thread and the event loop   *)
(* (specification SpecShutdown).  The callbacks of the network thread only *)
(* queue their work for the event loop here (handoff); the event loop runs *)
(* it between the steps of async_shutdown, wherever that awaits.           *)
(***************************************************************************)
\* the client ids uuid4 may give
ClientIds == {"id1", "id2"}

\* the events queued or on their way to the queue, and the reconnect starts on
\* their way to the event loop (the runs are bounded by what the network
\* thread hands over, never by what the event loop may run)
EventsPending ==
    Len(_event_queue) + Len(SelectSeq(handoff, LAMBDA c : c # "start_reconnect"))
StartsPending == Len(SelectSeq(handoff, LAMBDA c : c = "start_reconnect"))

\* MQTTService._on_connect, on the network thread: the flag is set there, the
\* event is handed to the event loop; after "identifier rejected" a new client
\* id is drawn
NetOnConnect(rc, new_id) ==
    /\ client = "started"
    /\ ~_connected
    /\ broker_up
    /\ Len(handoff) < MaxHandoff
    /\ rc = 0 => EventsPending < MaxEvents
    /\ _connected' = (rc = 0)
    /\ handoff' = IF rc = 0 THEN Append(handoff, "queue_connect") ELSE handoff
    /\ _client_id' = IF rc = 2 THEN new_id ELSE _client_id
    /\ UNCHANGED <<config, parseVars, phase, client, _callbacks, loop_calls,
                   reconnectVars, dataVars, policyVars, clockVars, brokerVars, apiVars,
                   taskVars, queryVars, thresholdVars, _event_queue, shutdown_pc,
                   shutdown_raised, flowVars, moreVars>>

\* MQTTService._on_disconnect, on the network thread: the flag is cleared there,
\* the event and, after an unexpected disconnect, the start of the reconnect
\* are handed to the event loop
NetOnDisconnect(rc) ==
    /\ client = "started"
    /\ _connected
    /\ Len(handoff) + 2 <= MaxHandoff
    /\ EventsPending < MaxEvents
    /\ rc # 0 => StartsPending + Len(reconnect_tasks) < MaxReconnectTasks
    /\ _connected' = FALSE
    /\ subscribed' = {}
    /\ handoff' = handoff \o <<"queue_disconnect">>
                      \o (IF rc # 0 THEN <<"start_reconnect">> ELSE <<>>)
    /\ UNCHANGED <<config, parseVars, phase, client, _callbacks, loop_calls,
                   reconnectVars, dataVars, policyVars, clockVars, broker_up, apiVars,
                   taskVars, queryVars, thresholdVars, _event_queue, shutdown_pc,
                   shutdown_raised, _client_id, flowVars, moreVars>>

\* asyncio.Queue() is made without a maxsize: 0, a queue without a limit
maxsize == 0
\* asyncio.Queue.full()
Full(queue) == maxsize > 0 /\ Len(queue) >= maxsize

\* MQTTService._queue_event: put_nowait on the queue; on QueueFull the event
\* that was to be queued is logged and ignored
QueueEventIgnored(queue, event_type) == queue
_queue_event(queue, event_type) ==
    IF Full(queue) THEN queue ELSE Append(queue, event_type)

\* the event loop runs the callback queued first: _queue_event or
\* _start_reconnect_thread_safe
LoopRun ==
    /\ handoff # <<>>
    /\ handoff' = Tail(handoff)
    /\ IF Head(handoff) = "start_reconnect"
       THEN LET started == _start_reconnect_thread_safe(_reconnect_task, reconnect_tasks)
            IN  /\ _reconnect_task' = started.handle
                /\ reconnect_tasks' = started.tasks
                /\ reconnect_skipped' = (_reconnect_task \/ reconnect_skipped)
                /\ UNCHANGED _event_queue
       ELSE /\ _event_queue' =
                   _queue_event(_event_queue,
                                IF Head(handoff) = "queue_connect" THEN "connect"
                                ELSE "disconnect")
            /\ UNCHANGED <<_reconnect_task, reconnect_tasks, reconnect_skipped>>
    /\ UNCHANGED <<config, parseVars, phase, mqttVars, _reconnect_delay,
                   reconnect_failures, dataVars, policyVars, clockVars, brokerVars,
                   apiVars, taskVars, queryVars, thresholdVars, shutdown_pc,
                   shutdown_raised, _client_id, flowVars, moreVars>>

\* _process_events takes the oldest event off the queue and fires it on the bus
ProcessEvent ==
    /\ _event_processor_task
    /\ _event_queue # <<>>
    /\ _event_queue' = Tail(_event_queue)
    /\ UNCHANGED <<config, runVars, taskVars, queryVars, thresholdVars, handoff,
                   shutdown_pc, shutdown_raised, _client_id, flowVars, moreVars>>

\* the end of async_shutdown: every listener is released, the list cleared, and
\* the coordinator logs that it has ended
ReleaseListeners ==
    /\ shutdown_pc' = "done"
    /\ phase' = "stopped"
    /\ _mqtt_unsubs' = {}

\* async_shutdown up to the first await of MQTTService.disconnect:
\* _unsubscribe_from_topics calls unsubscribe for every topic (an exception of
\* the client counts as a refusal and is logged); disconnect() does nothing
\* without a client, else it cancels the event processor and the reconnect
\* task, which end at the await that follows
ShutdownStart(result) ==
    /\ phase = "running"
    /\ shutdown_pc = "idle"
    /\ _callbacks' = {t \in _callbacks :
                         t \in unsubscribe(_callbacks, t, client # "none", _connected, result)}
    /\ subscribed' = IF client # "none" /\ _connected /\ result THEN {} ELSE subscribed
    /\ IF client = "none"
       THEN /\ ReleaseListeners
            /\ UNCHANGED <<_event_processor_task, _reconnect_task, reconnect_tasks,
                           reconnect_skipped>>
       ELSE /\ shutdown_pc' = "loop_stop"
            /\ phase' = "stopping"
            /\ _event_processor_task' = FALSE
            /\ _reconnect_task' = FALSE
            /\ reconnect_tasks' = <<>>
            /\ reconnect_skipped' = FALSE
            /\ UNCHANGED _mqtt_unsubs
    /\ UNCHANGED <<config, parseVars, client, _connected, loop_calls, _reconnect_delay,
                   reconnect_failures, dataVars, policyVars, clockVars, broker_up,
                   apiVars, queryVars, thresholdVars, _event_queue, handoff,
                   shutdown_raised, _client_id, flowVars, moreVars>>

\* await async_add_executor_job(self.client.loop_stop): the network thread ends;
\* or the job raises, disconnect() logs it and returns, and async_shutdown
\* releases the listeners
LoopStop(raises) ==
    /\ shutdown_pc = "loop_stop"
    /\ shutdown_raised' = IF raises THEN shutdown_raised \cup {"loop_stop"}
                          ELSE shutdown_raised
    /\ client' = IF raises \/ client = "none" THEN client ELSE "stopped"
    /\ IF raises THEN ReleaseListeners
       ELSE /\ shutdown_pc' = "client_disconnect"
            /\ UNCHANGED <<phase, _mqtt_unsubs>>
    /\ UNCHANGED <<config, parseVars, _connected, _callbacks, loop_calls,
                   reconnectVars, dataVars, policyVars, clockVars, brokerVars, apiVars,
                   _event_processor_task, queryVars, thresholdVars, _event_queue,
                   handoff, _client_id, flowVars, moreVars>>

\* await async_add_executor_job(self.client.disconnect) and
\* self._connected = False, or the job raises; then async_shutdown releases the
\* listeners
ClientDisconnect(raises) ==
    /\ shutdown_pc = "client_disconnect"
    /\ shutdown_raised' = IF raises THEN shutdown_raised \cup {"client_disconnect"}
                          ELSE shutdown_raised
    /\ _connected' = IF raises THEN _connected ELSE FALSE
    /\ subscribed' = {}
    /\ ReleaseListeners
    /\ UNCHANGED <<config, parseVars, client, _callbacks, loop_calls, reconnectVars,
                   dataVars, policyVars, clockVars, broker_up, apiVars,
                   _event_processor_task, queryVars, thresholdVars, _event_queue,
                   handoff, _client_id, flowVars, moreVars>>

InitShutdown ==
    /\ config = RunCatalog("Naunhof", NoAvailability)
    /\ in_topic = <<>>
    /\ in_payload = [kind |-> "empty", data |-> Null]
    /\ parsed = NoneResult
    /\ resolved = NoneStr
    /\ pc = "done"
    /\ config_file = NoFile
    /\ Constructed

NextShutdown ==
    \/ \E ok \in BOOLEAN, connack \in BOOLEAN, skipped \in 0..MaxTopics :
           FirstRefresh(ok, connack, skipped)
    \/ \E rc \in {0, 2, 5}, new_id \in ClientIds : NetOnConnect(rc, new_id)
    \/ \E rc \in {0, 7} : NetOnDisconnect(rc)
    \/ LoopRun
    \/ ProcessEvent
    \/ \E i \in 1..MaxReconnectTasks : ReconnectWake(i)
    \/ \E i \in 1..MaxReconnectTasks, ok \in BOOLEAN : ReconnectDone(i, ok)
    \/ \E result \in BOOLEAN : ShutdownStart(result)
    \/ \E raises \in BOOLEAN : LoopStop(raises)
    \/ \E raises \in BOOLEAN : ClientDisconnect(raises)

SpecShutdown == InitShutdown /\ [][NextShutdown]_vars

\* the event loop runs every callback handed to it with call_soon_threadsafe,
\* and the _process_events task, while it is alive, takes every event off the
\* queue (its wait_for returns as soon as the queue holds one)
SpecShutdownFair == SpecShutdown /\ WF_vars(LoopRun) /\ WF_vars(ProcessEvent)

(***************************************************************************)
(* The config flow and the options flow (specification SpecFlow).  The     *)
(* flow manager of Home Assistant keeps a flow in progress after a form    *)
(* and ends it after an abort, a created entry or an exception; it checks  *)
(* a submission against the schema of the form before the step sees it,    *)
(* adds the entry a config flow creates and stores the data an options     *)
(* flow returns as the entry's options.                                    *)
(***************************************************************************)
NAME == "SmartCity SensorBridge Partheland"
CONF_SELECTED_DEVICES == "selected_devices"
CONF_SELECTED_MEDIAN_ENTITIES == "selected_median_entities"
ERROR_NO_SELECTION == "mindestens_eine_auswahl"
ABORT_ALREADY_CONFIGURED == "already_configured"
ABORT_NO_DEVICES == "no_devices_available"

Form(errors) ==
    [type |-> "form", step_id |-> "device_selection", errors |-> errors,
     reason |-> NoneStr, title |-> NoneStr, data |-> EmptyFn]
Abort(reason) ==
    [type |-> "abort", step_id |-> NoneStr, errors |-> EmptyFn, reason |-> reason,
     title |-> NoneStr, data |-> EmptyFn]
CreateEntry(title, data) ==
    [type |-> "create_entry", step_id |-> NoneStr, errors |-> EmptyFn,
     reason |-> NoneStr, title |-> title, data |-> data]
\* the step raised: the flow manager passes the exception on
FlowRaised ==
    [type |-> "raised", step_id |-> NoneStr, errors |-> EmptyFn, reason |-> NoneStr,
     title |-> NoneStr, data |-> EmptyFn]

\* self._async_current_entries()
NeverConfigured(current) == FALSE
EntryExists(current) == current # <<>>

\* the catalog a new ConfigService loads from the file
FlowCatalog == load_config(NoneConfig, config_file).dict

\* _load_devices: the ids of the devices of all categories but MedianEntities,
\* and those of the median entities; nothing without a config service or when
\* the catalog cannot be read that way
LoadedDevices(has_service) ==
    IF has_service /\ "known_devices" \in DOMAIN FlowCatalog
          /\ FlowCatalog["known_devices"].t = "obj"
    THEN LET all == Flatten(SelectSeq(config.known_devices,
                                      LAMBDA c : c.name # "MedianEntities"))
         IN  {all[i].id : i \in 1..Len(all)}
    ELSE {}
LoadedMedianEntities(has_service) ==
    IF has_service /\ "known_devices" \in DOMAIN FlowCatalog
          /\ FlowCatalog["known_devices"].t = "obj"
    THEN LET med == get_median_entities(config) IN {med[i].id : i \in 1..Len(med)}
    ELSE {}

\* user_input.get(key, [])
InputList(user_input, key) ==
    IF key \in DOMAIN user_input THEN user_input[key] ELSE <<>>

\* not selected_devices and not selected_median_entities
NoDeviceSelected(selected_devices, selected_median_entities) ==
    selected_devices = <<>>
NoSelection(selected_devices, selected_median_entities) ==
    selected_devices = <<>> /\ selected_median_entities = <<>>

\* ConfigFlow.async_step_user, as the flow manager starts a user flow
\* the flow manager keeps a new flow under a fresh id: the first slot not in use
FreeSlot(f) == flows[f] = NoFlow /\ \A g \in 1..(f - 1) : flows[g] # NoFlow

UserFlowInit(f, import_ok) ==
    /\ FreeSlot(f)
    /\ IF EntryExists(entries)
       THEN /\ flow_result' = Abort(ABORT_ALREADY_CONFIGURED)
            /\ UNCHANGED flows
       ELSE IF ~import_ok
       THEN /\ flow_result' = FlowRaised
            /\ UNCHANGED flows
       ELSE IF ~validate_config(FlowCatalog)
       THEN /\ flow_result' = Abort(ABORT_NO_DEVICES)
            /\ UNCHANGED flows
       ELSE /\ flow_result' = Form(EmptyFn)
            /\ flows' = [flows EXCEPT ![f] =
                            [handler |-> "user", entry |-> 0,
                             devices |-> LoadedDevices(TRUE),
                             median_entities |-> LoadedMedianEntities(TRUE),
                             defaults |-> EmptyFn]]
    /\ UNCHANGED <<config, runVars, taskVars, queryVars, thresholdVars, lifeVars,
                   entries, moreVars>>

\* ConfigFlow.async_step_device_selection with the submission of the form
UserFlowConfigure(f, user_input) ==
    LET selected_devices == InputList(user_input, CONF_SELECTED_DEVICES)
        selected_median_entities == InputList(user_input, CONF_SELECTED_MEDIAN_ENTITIES)
        config_data ==
            (CONF_SELECTED_DEVICES :> selected_devices)
                @@ (CONF_SELECTED_MEDIAN_ENTITIES :> selected_median_entities)
    IN  /\ flows[f].handler = "user"
        /\ IF NoSelection(selected_devices, selected_median_entities)
           THEN /\ flow_result' = Form("base" :> ERROR_NO_SELECTION)
                /\ UNCHANGED <<flows, entries>>
           ELSE /\ Len(entries) < MaxEntries
                /\ flow_result' = CreateEntry(NAME, config_data)
                /\ entries' = Append(entries, [title |-> NAME, data |-> config_data,
                                               options |-> EmptyFn])
                /\ flows' = [flows EXCEPT ![f] = NoFlow]
        /\ UNCHANGED <<config, runVars, taskVars, queryVars, thresholdVars, lifeVars, moreVars>>

\* the defaults of the two optional keys in the schema of the options form
FormDefaults(current_devices, current_median_entities) ==
    (CONF_SELECTED_DEVICES :> current_devices)
        @@ (CONF_SELECTED_MEDIAN_ENTITIES :> current_median_entities)

\* OptionsFlowHandler.async_step_init: the form of device_selection, with the
\* entry's current selection as the defaults
OptionsFlowInit(f, e, import_ok) ==
    /\ FreeSlot(f)
    /\ e \in 1..Len(entries)
    /\ flow_result' = Form(EmptyFn)
    /\ flows' = [flows EXCEPT ![f] =
                    [handler |-> "options", entry |-> e,
                     devices |-> LoadedDevices(import_ok),
                     median_entities |-> LoadedMedianEntities(import_ok),
                     defaults |->
                         FormDefaults(InputList(entries[e].data, CONF_SELECTED_DEVICES),
                                      InputList(entries[e].data,
                                                CONF_SELECTED_MEDIAN_ENTITIES))]]
    /\ UNCHANGED <<config, runVars, taskVars, queryVars, thresholdVars, lifeVars,
                   entries, moreVars>>

\* {**self.config_entry.data, selected_devices: ..., selected_median_entities: ...}
ReplaceEntryData(data, selected_devices, selected_median_entities) ==
    (CONF_SELECTED_DEVICES :> selected_devices)
        @@ (CONF_SELECTED_MEDIAN_ENTITIES :> selected_median_entities)
MergeEntryData(data, selected_devices, selected_median_entities) ==
    (CONF_SELECTED_DEVICES :> selected_devices)
        @@ (CONF_SELECTED_MEDIAN_ENTITIES :> selected_median_entities) @@ data

\* the schema of the form applied to a submission: a key left out gets its
\* default, and the default is validated by multi_select like a given value
Validated(f, submitted) == submitted @@ flows[f].defaults
SchemaAccepts(f, submitted) ==
    \A k \in DOMAIN flows[f].defaults \ DOMAIN submitted :
        \A i \in 1..Len(flows[f].defaults[k]) :
            flows[f].defaults[k][i] \in
                (IF k = CONF_SELECTED_DEVICES THEN flows[f].devices
                 ELSE flows[f].median_entities)

\* OptionsFlowHandler.async_step_device_selection with the submission; the
\* reload of the entry it schedules is not part of the step
OptionsFlowConfigure(f, submitted) ==
    LET user_input == Validated(f, submitted)
        selected_devices == InputList(user_input, CONF_SELECTED_DEVICES)
        selected_median_entities == InputList(user_input, CONF_SELECTED_MEDIAN_ENTITIES)
        e == flows[f].entry
    IN  /\ flows[f].handler = "options"
        /\ IF ~SchemaAccepts(f, submitted)
           THEN /\ flow_result' = FlowRaised
                /\ UNCHANGED <<flows, entries>>
           ELSE IF NoSelection(selected_devices, selected_median_entities)
           THEN /\ flow_result' = Form("base" :> ERROR_NO_SELECTION)
                /\ flows' = [flows EXCEPT ![f].defaults = FormDefaults(<<>>, <<>>)]
                /\ UNCHANGED entries
           ELSE /\ flow_result' = CreateEntry("", EmptyFn)
                /\ entries' =
                       [entries EXCEPT ![e] =
                           [title |-> @.title,
                            data |-> MergeEntryData(@.data, selected_devices,
                                                    selected_median_entities),
                            options |-> EmptyFn]]
                /\ flows' = [flows EXCEPT ![f] = NoFlow]
        /\ UNCHANGED <<config, runVars, taskVars, queryVars, thresholdVars, lifeVars, moreVars>>

\* environment: an entry of the integration that was stored before (by an
\* earlier version, with a key of its own), selecting a device of the catalog
\* or one the catalog no longer has
StoredEntry(device_id) ==
    [title |-> NAME,
     data |-> (CONF_SELECTED_DEVICES :> <<device_id>>)
                  @@ (CONF_SELECTED_MEDIAN_ENTITIES :> <<>>) @@ ("legacy" :> <<"v1">>),
     options |-> EmptyFn]
StoredDevices == {"sb1", "sb9"}
AddEntry(device_id) ==
    /\ Len(entries) < MaxEntries
    /\ entries' = Append(entries, StoredEntry(device_id))
    /\ UNCHANGED <<config, runVars, taskVars, queryVars, thresholdVars, lifeVars,
                   flows, flow_result, moreVars>>

\* the lists a multi_select over the choices lets through
RECURSIVE Lists(_, _)
Lists(choices, n) ==
    IF n = 0 THEN {<<>>}
    ELSE Lists(choices, n - 1)
         \cup {Append(l, c) : l \in {x \in Lists(choices, n - 1) : Len(x) = n - 1},
                              c \in choices}
Selections(choices) ==
    {l \in Lists(choices, MaxSelected) : \A i, j \in 1..Len(l) : l[i] = l[j] => i = j}
\* the submissions the schema of a flow's form accepts
Submissions(f) ==
    {[k \in keys |-> IF k = CONF_SELECTED_DEVICES THEN d ELSE m] :
        keys \in SUBSET {CONF_SELECTED_DEVICES, CONF_SELECTED_MEDIAN_ENTITIES},
        d \in Selections(flows[f].devices),
        m \in Selections(flows[f].median_entities)}

\* no file, a file that is no JSON, a catalog file, and one whose known_devices
\* is no object
FlowFiles ==
    {NoFile,
     [exists |-> TRUE, json |-> FALSE, sections |-> EmptyFn],
     [exists |-> TRUE, json |-> TRUE,
      sections |-> FileSections(FullMqttConfig, KnownDevicesObject)],
     [exists |-> TRUE, json |-> TRUE, sections |-> FileSections(FullMqttConfig, Arr)]}

InitFlow ==
    /\ config = RunCatalog("Naunhof", NoAvailability)
    /\ in_topic = <<>>
    /\ in_payload = [kind |-> "empty", data |-> Null]
    /\ parsed = NoneResult
    /\ resolved = NoneStr
    /\ pc = "done"
    /\ config_file \in FlowFiles
    /\ Constructed

NextFlow ==
    \/ \E f \in 1..MaxFlows, import_ok \in BOOLEAN : UserFlowInit(f, import_ok)
    \/ \E f \in 1..MaxFlows : \E user_input \in Submissions(f) :
           UserFlowConfigure(f, user_input)
    \/ \E f \in 1..MaxFlows, e \in 1..MaxEntries, import_ok \in BOOLEAN :
           OptionsFlowInit(f, e, import_ok)
    \/ \E f \in 1..MaxFlows : \E user_input \in Submissions(f) :
           OptionsFlowConfigure(f, user_input)
    \/ \E device_id \in StoredDevices : AddEntry(device_id)

SpecFlow == InitFlow /\ [][NextFlow]_vars

(***************************************************************************)
(* Properties of the parser (specification SpecParse).                     *)
(***************************************************************************)
\* the data object of the message: the document itself on a median topic, the
\* value under "fields" otherwise; no keys if there is no such object
MsgFields ==
    IF in_payload.kind # "json" \/ in_payload.data.t # "obj" THEN EmptyFn
    ELSE IF _get_topic_type(in_topic) = "sensebox" /\ _is_median_topic(in_topic)
         THEN in_payload.data.o
    ELSE IF "fields" \in DOMAIN in_payload.data.o /\ in_payload.data.o["fields"].t = "obj"
         THEN in_payload.data.o["fields"].o
    ELSE EmptyFn

\* the catalog entry the message addresses, as the parser looks it up
MsgDevice ==
    _get_configured_sensors_for_device(
        config, ResolvedDeviceId(config, in_topic),
        _get_topic_type(in_topic) = "sensebox" /\ _is_median_topic(in_topic),
        IF _get_topic_type(in_topic) = "sensebox" THEN "sensebox" ELSE "specialized")
MsgAddressesDevice == _is_valid_topic(in_topic) /\ MsgDevice.ok
MsgAllowList == IF MsgAddressesDevice THEN MsgDevice.sensors ELSE {}

NumberFields == {k \in DOMAIN MsgFields : IsJsonNumber(MsgFields[k])}
BooleanFields == {k \in DOMAIN MsgFields : MsgFields[k].t = "bool"}
RssiOnly == DOMAIN MsgFields # {} /\ DOMAIN MsgFields \subseteq RssiLike
OnSpecializedTopic == _is_valid_topic(in_topic) /\ in_topic[1] = "sensoren"
Restrict(f, S) == [k \in DOMAIN f \cap S |-> f[k]]

\* C5 as stated: whenever the JSON-number fields of the payload are a subset of the
\* addressed device's allow-list, parse returns a reading whose sensorData is exactly
\* those fields with their values; and no reading holds a field outside the allow-list.
C5_AsClaimed ==
    pc = "done" /\ in_payload.kind = "json" /\ MsgAddressesDevice =>
        /\ NumberFields \subseteq MsgAllowList =>
              parsed.ok /\ parsed.sensor_data = Restrict(MsgFields, NumberFields)
        /\ parsed.ok => DOMAIN parsed.sensor_data \subseteq MsgAllowList

\* C5 amended: parse returns a reading exactly when the message addresses a cataloged
\* device, is not a filtered signal-strength-only message, and some allow-listed field
\* holds a number or a boolean; the reading's sensorData is then exactly the
\* allow-listed number fields of the payload with their values, plus the allow-listed
\* boolean fields; no field outside the allow-list ever appears in it.
C5_AllowListFilter ==
    pc = "done" /\ in_payload.kind = "json" =>
        LET kept == (NumberFields \cup BooleanFields) \cap MsgAllowList
            filtered == OnSpecializedTopic /\ config.ignore_rssi_only /\ RssiOnly
        IN  /\ parsed.ok <=> MsgAddressesDevice /\ ~filtered /\ kept # {}
            /\ parsed.ok =>
                  /\ parsed.sensor_data = Restrict(MsgFields, kept)
                  /\ DOMAIN parsed.sensor_data \subseteq MsgAllowList
                  /\ NumberFields \cap MsgAllowList \subseteq DOMAIN parsed.sensor_data

\* a reading that dropped a field outside the allow-list and a non-numeric one
C5_Witness ==
    /\ pc = "done" /\ parsed.ok
    /\ in_topic = SenseBoxTopic("sb1")
    /\ MsgAllowList = {"temp"}
    /\ DOMAIN MsgFields = {"temp", "hum", "rssi"}
    /\ DOMAIN parsed.sensor_data = {"temp"}

\* C6 as stated: every value of a returned sensorData is a JSON number, and parse
\* returns None when no allow-listed field holds a JSON number.
C6_OnlyJsonNumbers ==
    pc = "done" =>
        /\ parsed.ok => \A k \in DOMAIN parsed.sensor_data : IsJsonNumber(parsed.sensor_data[k])
        /\ NumberFields \cap MsgAllowList = {} => ~parsed.ok

\* C7: parse returns None, and raises nothing, for an empty, non-UTF-8 or malformed
\* payload and for a topic of none of the three shapes, whatever the payload.
C7_RejectsInvalid ==
    LET shape1 == Len(in_topic) = 2 /\ in_topic[1] = "senseBox:home" /\ in_topic[2] # ""
        shape2 == /\ Len(in_topic) = 3 /\ in_topic[1] = "senseBox:home"
                  /\ in_topic[2] = "median" /\ in_topic[3] # ""
        shape3 == Len(in_topic) = 2 /\ in_topic[1] = "sensoren" /\ in_topic[2] # ""
    IN  pc = "done" /\ (in_payload.kind \in {"empty", "badutf8", "badjson"}
                        \/ ~(shape1 \/ shape2 \/ shape3))
            => parsed = NoneResult

\* a well-formed payload for a cataloged device, on a topic with one segment too many
C7_Witness ==
    /\ pc = "done"
    /\ in_topic = <<"senseBox:home", "x", "sb1">>
    /\ in_payload = Json(Obj("fields" :> Obj("temp" :> Num(21))))
    /\ "temp" \in devices_of(config, "senseBox")[1].sensors
    /\ parsed = NoneResult

\* the payload has a signal-strength key and exactly one other field, a JSON number
RssiPlusOneNumber ==
    /\ DOMAIN MsgFields \cap RssiLike # {}
    /\ Cardinality(DOMAIN MsgFields \ RssiLike) = 1
    /\ DOMAIN MsgFields \ RssiLike \subseteq NumberFields

OnMedianTopic == _is_valid_topic(in_topic) /\ Len(in_topic) = 3
MedianToken == in_topic[3]
MedianList == get_median_entities(config)
TokenNames(e) == MedianToken = e.id \/ MedianToken = e.location

IsCatalogId(cfg, device_id) ==
    LET all == Flatten(cfg.known_devices)
    IN  FirstIndex({k \in 1..Len(all) : all[k].id = device_id}) # 0
CatalogSensors(cfg, device_id) ==
    LET all == Flatten(cfg.known_devices)
        i == FirstIndex({k \in 1..Len(all) : all[k].id = device_id})
    IN  IF i = 0 THEN {} ELSE all[i].sensors
Elapsed(device_id) == now - _device_last_seen[device_id]

\* C1: for every device, the availability is Offline whenever the transport is
\* not connected; otherwise Stale ("Veraltet") if no reading was ever recorded or
\* the monotonic time since the last one exceeds the effective threshold;
\* otherwise Online.
C1_AvailabilityDerivation ==
    \A e \in MetaEntities(config) :
        LET seen == e.device_id \in DOMAIN _device_last_seen
            threshold == get_effective_stale_seconds(e.device_id, e.device_type)
            value == native_value(e.device_id, e.device_type)
        IN  /\ ~_connected => value = "Offline"
            /\ _connected /\ (~seen \/ Elapsed(e.device_id) > threshold)
                  => value = "Veraltet"
            /\ _connected /\ seen /\ Elapsed(e.device_id) <= threshold
                  => value = "Online"

\* the example of the claim: connected, threshold 300 s, seen 301 s ago, Stale;
\* and another device exactly at its threshold, Online
C1_Witness ==
    /\ _connected
    /\ \E e \in MetaEntities(config) :
          /\ e.device_id \in DOMAIN _device_last_seen
          /\ get_effective_stale_seconds(e.device_id, e.device_type) = 300
          /\ Elapsed(e.device_id) = 301
          /\ native_value(e.device_id, e.device_type) = "Veraltet"
    /\ \E e \in MetaEntities(config) :
          /\ e.device_id \in DOMAIN _device_last_seen
          /\ Elapsed(e.device_id) = get_effective_stale_seconds(e.device_id, e.device_type)
          /\ native_value(e.device_id, e.device_type) = "Online"

\* C2: in every reachable state the stored readings of every device contain only
\* field names of that device's catalog allow-list.
C2_ReadingsWithinAllowList ==
    \A d \in DOMAIN _sensor_data :
        DOMAIN _sensor_data[d] \subseteq CatalogSensors(config, d)

\* what is left of C2 for the readings stored under a cataloged id
C2_CatalogedIdsWithinAllowList ==
    \A d \in DOMAIN _sensor_data :
        IsCatalogId(config, d) => DOMAIN _sensor_data[d] \subseteq CatalogSensors(config, d)

\* C3: in every reachable state every device id with stored readings or a
\* last-seen time is the id of a cataloged device or median entity; a median
\* message is never stored under the raw topic token.
C3_StoredIdsResolvable ==
    \A d \in DOMAIN _sensor_data \cup DOMAIN _device_last_seen : IsCatalogId(config, d)

\* C4: in every step, a device's recorded last-seen time stays recorded and
\* does not decrease.
C4_LastSeenNeverDecreases ==
    [][\A d \in DOMAIN _device_last_seen :
          /\ d \in DOMAIN _device_last_seen'
          /\ _device_last_seen'[d] >= _device_last_seen[d]]_vars

\* two messages of one device stored at different times, both updates still
\* suspended (their processing overlaps), after the system clock was set back
C4_Witness ==
    /\ Len(tasks) = 2
    /\ tasks[1] = tasks[2]
    /\ _device_last_seen[tasks[1]] > 0
    /\ wall_offset < 0

(***************************************************************************)
(* Threshold resolution.                                                   *)
(***************************************************************************)
\* the devices and categories a threshold is asked for: cataloged ones, one with
\* an override but no catalog entry, unknown ones, and no category at all
ThresholdQueryIds == {"sb1", "median_Naunhof", "ghost", "nobody"}
ThresholdQueryTypes == {"senseBox", "sensebox", "median", "Temperature", "", NoneStr}

\* the overrides of the catalog that spell a duration, and a duration with the
\* floor of 60 s
ValidKeys(raw) == {k \in DOMAIN raw : _parse_to_seconds(raw[k]) > 0}
Floored(value) ==
    IF _parse_to_seconds(value) < 60 THEN 60 ELSE _parse_to_seconds(value)

\* the threshold the catalog's availability section asks for
CatalogThreshold(cfg, device_id, device_type) ==
    LET a == cfg.availability
        types == {k \in ValidKeys(a.per_type) :
                     device_type # NoneStr /\ Lower(k) = Lower(device_type)}
        default == IF a.default # Null THEN a.default ELSE a.default_stale_seconds
    IN  IF device_id \in ValidKeys(a.per_device) THEN Floored(a.per_device[device_id])
        ELSE IF types # {} THEN Floored(a.per_type[CHOOSE k \in types : TRUE])
        ELSE IF _parse_to_seconds(default) > 0 THEN Floored(default)
        ELSE 300

\* C11: the effective threshold is defined for every device id and category
\* (a missing category included): the per-device override if there is one, else
\* the per-category override found without regard to case, else the default;
\* before the thresholds are loaded it is the built-in default of 300 s.
C11_EffectiveThresholdTotal ==
    \A device_id \in ThresholdQueryIds, device_type \in ThresholdQueryTypes :
        get_effective_stale_seconds(device_id, device_type) =
            IF phase = "running" THEN CatalogThreshold(config, device_id, device_type)
            ELSE 300

\* all three levels answer in one state: a device override, a category override
\* written "senseBox" in the catalog and asked for as "sensebox" and "senseBox",
\* and the default for an unknown device without a category
C11_Witness ==
    /\ phase = "running"
    /\ get_effective_stale_seconds("median_Naunhof", "median") = 300
    /\ get_effective_stale_seconds("ghost", "senseBox") = 60
    /\ get_effective_stale_seconds("sb1", "senseBox") = 150
    /\ get_effective_stale_seconds("sb1", "sensebox") = 150
    /\ get_effective_stale_seconds("nobody", NoneStr) = 600


(***************************************************************************)
(* C12, C13: the reconnect delay and the reconnect task.                   *)
(***************************************************************************)
\* initial * factor^N, the factor 1.2 as 6/5, carried to the microsecond
RECURSIVE InitialTimesFactorToThe(_)
InitialTimesFactorToThe(N) ==
    IF N = 0 THEN InitialDelay ELSE (InitialTimesFactorToThe(N - 1) * 6) \div 5

Min(a, b) == IF a < b THEN a ELSE b

\* C12: the reconnect delay starts at 3 s, after N consecutive failed reconnect
\* attempts it is min(3 s * 1.2^N, 30 s), a successful reconnect resets it to
\* 3 s, and it always lies between 3 s and 30 s.
C12_ReconnectDelay ==
    /\ InitialDelay <= _reconnect_delay
    /\ _reconnect_delay <= DelayCap
    /\ _reconnect_delay = Min(InitialTimesFactorToThe(reconnect_failures), DelayCap)
    /\ phase = "constructed" => _reconnect_delay = InitialDelay

C12_Witness ==
    /\ reconnect_failures > 0
    /\ InitialTimesFactorToThe(reconnect_failures) > DelayCap
    /\ _reconnect_delay = DelayCap

\* C13: at most one reconnect task is pending or running; an unexpected
\* disconnect that arrives while a reconnect task sleeps or connects starts no
\* second one.
C13_SingleReconnectTask ==
    /\ Len(reconnect_tasks) <= 1
    /\ _reconnect_task <=> reconnect_tasks # <<>>

C13_Witness ==
    /\ reconnect_skipped
    /\ ~_connected
    /\ reconnect_tasks = <<"connecting">>


(***************************************************************************)
(* C14: reconnect attempts during an outage.                               *)
(***************************************************************************)
\* a reconnect attempt has failed, its task has ended and the client is down
AfterFailedReconnect ==
    /\ phase = "running"
    /\ reconnect_failures > 0
    /\ reconnect_tasks = <<>>
    /\ client = "stopped"

\* C14: during an outage every failed reconnect attempt is eventually followed
\* by another reconnect attempt of the reconnect scheduler (a task that sleeps
\* the increased delay and connects), unless a connect attempt has succeeded or
\* the service was shut down.
C14_ReconnectAttemptsRepeat ==
    AfterFailedReconnect ~>
        (reconnect_tasks # <<>> \/ client = "started" \/ phase = "stopped")


(***************************************************************************)
(* C15: subscriptions after a reconnect.                                   *)
(***************************************************************************)
\* C15: once the transport is Connected (again), every topic that had an
\* active subscription, which is every topic with a registered handler, is
\* eventually subscribed on the connection, unless the connection is lost again
\* or the service is shut down first.
C15_ResubscribedAfterReconnect ==
    (phase = "running" /\ client = "started" /\ _connected) ~>
        (_callbacks \subseteq subscribed \/ ~_connected \/ phase = "stopped")


(***************************************************************************)
(* C16, C17: subscribe and unsubscribe.                                    *)
(***************************************************************************)
\* subscribe returns from its wait without a connection
SubscribeTimesOut == sub_pc = "waiting" /\ ~_connected /\ sub_pc' # "waiting"
\* subscribe leaves its wait with a connection
SubscribeConnected == sub_pc = "waiting" /\ _connected /\ sub_pc' # "waiting"

\* C16: subscribe always terminates; its wait is bounded by the polls of about
\* 10 s; if the transport is Connected in time the handler is registered and
\* client.subscribe is issued; if the wait times out the handler is not
\* registered, no subscription is issued and nothing is left behind that would
\* retry.
C16_SubscribeTerminates ==
    /\ [](wait_time <= SubscribePolls)
    /\ [][SubscribeConnected =>
             (sub_topic \in _callbacks' /\ sub_pc' = "subscribing")]_vars
    /\ [][(sub_pc = "subscribing" /\ sub_pc' # "subscribing") =>
             (sub_pc' = "idle" /\ sub_outcome' \in {"subscribed", "error"})]_vars
    /\ [][SubscribeTimesOut =>
             /\ wait_time = SubscribePolls
             /\ sub_pc' = "idle"
             /\ sub_outcome' = "timeout"
             /\ _callbacks' = _callbacks
             /\ subscribed' = subscribed
             /\ sub_todo' = sub_todo]_vars
    /\ (sub_pc # "idle") ~> (sub_pc = "idle")

\* the first topic timed out and has no handler, the second found the
\* connection after some polls and is subscribed
C16_Witness ==
    /\ sub_outcome = "subscribed"
    /\ sub_pc = "idle"
    /\ wait_time > 0
    /\ _callbacks = {sub_topic}
    /\ subscribed = {sub_topic}
    /\ sub_topic = MqttTopicList(config)[2]

\* C17: when unsubscribe(topic) has returned no handler is registered for the
\* topic, whatever the connection state was at the call.
C17_UnsubscribeRemovesHandler ==
    [][\A result \in BOOLEAN :
          Unsubscribe(result) => Head(sub_todo) \notin _callbacks']_vars


(***************************************************************************)
(* C18, C19, C20: the broker URL and the catalog file at setup.            *)
(***************************************************************************)
\* no broker URL, or one that does not start with wss://
UnsupportedUrl(url) == ~Truthy(url) \/ url.t # "str" \/ ~UrlParts[url.s].wss

\* C18: connect() with no broker URL or with a URL that is not wss:// returns
\* False (it does not raise), makes no new client, leaves an existing client
\* alone and does not change the connection state.
C18_ConnectRejectsUnsupportedUrl ==
    [][(/\ connect_returned' # connect_returned
        /\ UnsupportedUrl(BrokerUrl(_config'.dict))) =>
          /\ connect_returned' = "False"
          /\ client' = client
          /\ _connected' = _connected
          /\ subscribed' = subscribed]_vars

C18_Witness ==
    /\ connect_returned = "False"
    /\ BrokerUrl(_config.dict) = Str("mqtt://broker:1883")
    /\ validate_config(_config.dict)
    /\ client = "none"
    /\ setup_result = "False"

\* the file has the four required sections, and broker_url and topics in
\* mqtt_config
HasRequiredKeys(file) ==
    /\ file.exists
    /\ file.json
    /\ required_keys \subseteq DOMAIN file.sections
    /\ {"broker_url", "topics"} \subseteq DOMAIN file.sections["mqtt_config"].o

KnownDevicesIsMapping(file) ==
    "known_devices" \in DOMAIN file.sections => file.sections["known_devices"].t = "obj"

\* C19: for a catalog whose known_devices is a mapping, loading succeeds (the
\* loaded catalog validates) exactly if the four required sections and
\* mqtt_config's broker_url and topics are present; if one of them is missing no
\* part of the catalog is available to the queries.
C19_LoadFailsClosed ==
    (_config.loaded /\ KnownDevicesIsMapping(config_file)) =>
        /\ validate_config(_config.dict) <=> HasRequiredKeys(config_file)
        /\ ~HasRequiredKeys(config_file) =>
               \A key \in required_keys : Section(_config.dict, key) = EmptyObj

\* C20: with a missing or invalid catalog (no file, no JSON, a required section
\* missing, mqtt_config without broker_url or topics, known_devices not a
\* mapping) the setup of the entry reports failure and leaves no connection,
\* handler or subscription.
C20_InvalidCatalogFailsSetup ==
    (/\ setup_result # "none"
     /\ ~(HasRequiredKeys(config_file) /\ KnownDevicesIsMapping(config_file)))
        => /\ setup_result = "False"
           /\ client # "started"
           /\ ~_connected
           /\ _callbacks = {}
           /\ subscribed = {}


(***************************************************************************)
(* C21: the catalog queries (specification SpecQuery).                     *)
(***************************************************************************)
\* the ids and the categories of the catalog as loaded
LoadedIds == {"sb1", "sb2", "t1", "median_Naunhof"}
LoadedTypes == {"senseBox", "Temperature", "MedianEntities"}

\* C21: a query (device by id, median by id, devices by category) leaves the
\* loaded catalog exactly as it was, never raises, and returns nothing for an
\* id or a category the catalog does not have.
C21_QueriesReadOnly ==
    [][/\ config' = config
       /\ ~query_result'.raised
       /\ (query'.arg \notin LoadedIds \cup LoadedTypes \cup {"Naunhof"}
               => query_result'.items = <<>>)]_vars


(***************************************************************************)
(* C22: threshold parsing (specification SpecThreshold).                   *)
(***************************************************************************)
\* a text made of number+unit parts only (blanks between them allowed): the sum
\* of its parts in seconds; -1 for any other text
RECURSIVE PartsSum(_, _)
PartsSum(s, i) ==
    IF i > Len(s) THEN 0
    ELSE IF s[i] = " " THEN PartsSum(s, i + 1)
    ELSE IF s[i] \notin Digits THEN -1
    ELSE LET j == DigitRunEnd(s, i)
             k == SkipSpaces(s, j + 1)
             n == IntOf(s, i, j)
             rest == IF k <= Len(s) THEN PartsSum(s, k + 1) ELSE -1
         IN  IF k > Len(s) \/ s[k] \notin Units \/ rest = -1 THEN -1
             ELSE rest + (CASE s[k] = "s" -> n [] s[k] = "m" -> n * 60
                            [] s[k] = "h" -> n * 3600)

\* the seconds the claim gives a raw value, 0 for no override: a positive
\* integer is seconds, a digit string minutes, a composite duration the sum of
\* its parts, anything else and anything not positive nothing
ClaimedSeconds(value) ==
    IF value.t = "num" THEN (IF value.n > 0 THEN value.n ELSE 0)
    ELSE IF value.t = "str"
    THEN LET s == StripLower(DurationChars[value.s])
         IN  IF IsDigit(s) THEN IntOf(s, 1, Len(s)) * 60
             ELSE IF s # <<>> /\ PartsSum(s, 1) > 0 THEN PartsSum(s, 1)
             ELSE 0
    ELSE 0

\* the threshold the configuration holds where the raw value was put, 0 for none
ThresholdRead ==
    CASE threshold_input.slot \in {"default", "default_stale_seconds"} ->
             threshold_config.default_stale_seconds
      [] threshold_input.slot = "per_type" ->
             IF "senseBox" \in DOMAIN threshold_config.per_type
             THEN threshold_config.per_type["senseBox"] ELSE 0
      [] threshold_input.slot = "per_device" ->
             IF "sb1" \in DOMAIN threshold_config.per_device
             THEN threshold_config.per_device["sb1"] ELSE 0
      [] OTHER -> 0

\* C22: a raw positive integer is that many seconds, a composite duration text
\* the sum of its parts, a digit string minutes; an unparseable or non-positive
\* value gives no override; every accepted value is raised to at least 60 s.
C22_ThresholdParsing ==
    threshold_input.slot # "none" =>
        LET claimed == ClaimedSeconds(threshold_input.value)
        IN  ThresholdRead = IF claimed = 0 THEN 0
                            ELSE IF claimed < 60 THEN 60 ELSE claimed


(***************************************************************************)
(* C23, C24: shutdown (specification SpecShutdown).                        *)
(***************************************************************************)
\* async_shutdown returns with this step
ShutdownEnds == shutdown_pc # "done" /\ shutdown_pc' = "done"

\* C23: shutdown goes through all its steps even if one of them fails; when it
\* ends the transport is disconnected and all listeners are released.
C23_ShutdownCascade ==
    [][ShutdownEnds => ~_connected' /\ _mqtt_unsubs' = {}]_vars

\* C24: once shutdown has declared the service stopped, the reconnect task and
\* the event processor are cancelled and ended, and no reconnect task and no
\* connection attempt is started any more, whatever disconnect callbacks the
\* network thread has handed over.
C24_NothingStartsAfterShutdown ==
    /\ [](shutdown_pc = "done" =>
              reconnect_tasks = <<>> /\ ~_reconnect_task /\ ~_event_processor_task)
    /\ [][shutdown_pc = "done" =>
              /\ Len(reconnect_tasks') <= Len(reconnect_tasks)
              /\ \A i \in 1..Len(reconnect_tasks') :
                     reconnect_tasks'[i] = "connecting" => reconnect_tasks[i] = "connecting"]_vars


(***************************************************************************)
(* C25, C26, C27: the config flow and the options flow (specification      *)
(* SpecFlow).                                                              *)
(***************************************************************************)
\* a flow in progress shows the form of device_selection and can take a
\* submission
FormOpen(f, handler) == flows[f].handler = handler

\* C25: starting the user flow aborts when an entry of the integration exists;
\* when none exists and the catalog validates, it shows the form of step
\* device_selection.
C25_UserFlowStart ==
    [][\A f \in 1..MaxFlows, import_ok \in BOOLEAN :
          UserFlowInit(f, import_ok) =>
              /\ entries # <<>> =>
                     /\ flow_result'.type = "abort"
                     /\ flows'[f] = NoFlow
              /\ (entries = <<>> /\ import_ok /\ validate_config(FlowCatalog)) =>
                     /\ flow_result'.type = "form"
                     /\ flow_result'.step_id = "device_selection"
                     /\ FormOpen(f, "user")']_vars

\* a start was refused because of the entry that an earlier user flow, which
\* had shown the form, created
C25_Witness ==
    /\ flow_result = Abort(ABORT_ALREADY_CONFIGURED)
    /\ entries # <<>>
    /\ "legacy" \notin DOMAIN entries[1].data
    /\ \A f \in 1..MaxFlows : flows[f] = NoFlow

\* C26: the device_selection step of the user flow creates an entry if and only
\* if the submission selects a device or a median entity.  An empty submission
\* creates none, shows the form again with the error base =
\* mindestens_eine_auswahl and leaves the flow open; any other creates an entry
\* with the integration's name as title and exactly the two submitted lists as
\* data.
C26_EntryIffSelection ==
    [][\A f \in 1..MaxFlows : \A user_input \in Submissions(f) :
          UserFlowConfigure(f, user_input) =>
              LET d == IF "selected_devices" \in DOMAIN user_input
                       THEN user_input["selected_devices"] ELSE <<>>
                  m == IF "selected_median_entities" \in DOMAIN user_input
                       THEN user_input["selected_median_entities"] ELSE <<>>
              IN  IF d = <<>> /\ m = <<>>
                  THEN /\ entries' = entries
                       /\ flow_result'.type = "form"
                       /\ flow_result'.step_id = "device_selection"
                       /\ flow_result'.errors = ("base" :> "mindestens_eine_auswahl")
                       /\ FormOpen(f, "user")'
                  ELSE /\ Len(entries') = Len(entries) + 1
                       /\ SubSeq(entries', 1, Len(entries)) = entries
                       /\ entries'[Len(entries')].title = "SmartCity SensorBridge Partheland"
                       /\ entries'[Len(entries')].data =
                              ("selected_devices" :> d) @@ ("selected_median_entities" :> m)
                       /\ flow_result'.type = "create_entry"
                       /\ flow_result'.data = entries'[Len(entries')].data]_vars

\* an entry with median entities only was created after the form had been shown
\* again with the error
C26_Witness ==
    /\ flow_result.type = "create_entry"
    /\ flow_result.title = NAME
    /\ flow_result.data["selected_devices"] = <<>>
    /\ flow_result.data["selected_median_entities"] # <<>>
    /\ entries # <<>>

\* C27: the options flow starts with the form of device_selection; a submission
\* with a selection replaces the entry's two lists by exactly the submitted
\* ones, keeps the other keys of its data, leaves other entries alone and ends
\* with a create-entry result.  A list the submission leaves out is submitted
\* as the form shows it, with the default of its field.
C27_OptionsFlowUpdatesEntry ==
    [][/\ \A f \in 1..MaxFlows, e \in 1..MaxEntries, import_ok \in BOOLEAN :
              OptionsFlowInit(f, e, import_ok) =>
                  /\ flow_result'.type = "form"
                  /\ flow_result'.step_id = "device_selection"
                  /\ entries' = entries
       /\ \A f \in 1..MaxFlows : \A user_input \in Submissions(f) :
              OptionsFlowConfigure(f, user_input) =>
                  LET d == IF "selected_devices" \in DOMAIN user_input
                           THEN user_input["selected_devices"]
                           ELSE flows[f].defaults["selected_devices"]
                      m == IF "selected_median_entities" \in DOMAIN user_input
                           THEN user_input["selected_median_entities"]
                           ELSE flows[f].defaults["selected_median_entities"]
                      e == flows[f].entry
                  IN  (SchemaAccepts(f, user_input) /\ (d # <<>> \/ m # <<>>)) =>
                          /\ flow_result'.type = "create_entry"
                          /\ Len(entries') = Len(entries)
                          /\ \A i \in 1..Len(entries) : i # e => entries'[i] = entries[i]
                          /\ DOMAIN entries'[e].data =
                                 DOMAIN entries[e].data
                                     \cup {"selected_devices", "selected_median_entities"}
                          /\ entries'[e].data["selected_devices"] = d
                          /\ entries'[e].data["selected_median_entities"] = m
                          /\ \A k \in DOMAIN entries[e].data :
                                 k \notin {"selected_devices", "selected_median_entities"}
                                     => entries'[e].data[k] = entries[e].data[k]]_vars

\* the stored entry after an options flow changed its selection: the key of its
\* own is still there
C27_Witness ==
    /\ flow_result = CreateEntry("", EmptyFn)
    /\ \E e \in 1..Len(entries) :
           /\ "legacy" \in DOMAIN entries[e].data
           /\ entries[e].data["legacy"] = <<"v1">>
           /\ entries[e].data["selected_devices"] = <<>>
           /\ entries[e].data["selected_median_entities"] = <<"median_Naunhof">>

(***************************************************************************)
(* C28, C29, C30: the callbacks of the network thread and the queue of     *)
(* connect/disconnect events (specification SpecShutdown).                 *)
(***************************************************************************)
\* a callback of the client runs on the network thread
NetworkThreadStep ==
    \/ \E rc \in {0, 2, 5}, new_id \in ClientIds : NetOnConnect(rc, new_id)
    \/ \E rc \in {0, 7} : NetOnDisconnect(rc)

\* C28: the callbacks of the network thread never write shared state
\* themselves: the connection state, the client id, the event queue, the
\* handler table and the device state change only in work handed to the event
\* loop.
C28_CallbacksOnlyHandOff ==
    [][NetworkThreadStep =>
           UNCHANGED <<_connected, _client_id, _event_queue, _callbacks, dataVars>>]_vars

\* C29: the queue of pending connect/disconnect events has a fixed capacity:
\* however far the exploration lets the callbacks fire while the consumer is
\* stopped or slow, the queue stays below that bound.
C29_QueueBounded == Len(_event_queue) < MaxEvents

\* the event loop runs a handed-over _queue_event
Enqueue(event_type) ==
    /\ LoopRun
    /\ Head(handoff) = (IF event_type = "connect" THEN "queue_connect"
                        ELSE "queue_disconnect")

\* C30: an enqueue on a full queue drops the oldest pending event and keeps
\* the new one.  With any capacity below the bound of the exploration, an
\* enqueue on a queue one short of that bound finds it full: the queue then
\* holds the same number of events, the oldest gone and the new one last.
C30_FullQueueDropsOldest ==
    [][\A event_type \in {"connect", "disconnect"} :
          (Enqueue(event_type) /\ Len(_event_queue) = MaxEvents - 1) =>
              _event_queue' = Append(Tail(_event_queue), event_type)]_vars

(***************************************************************************)
(* ErrorHandler: the per-context error counter and what one handle_error   *)
(* call writes to the log and the bus.                                     *)
(***************************************************************************)
\* ErrorHandler._max_errors_per_context
_max_errors_per_context == 10
\* the errors handled per context in a run
MaxErrors == 12
\* two of the contexts the coordinator passes to handle_error
ErrorContexts == {"Health Check", "Coordinator Shutdown"}

\* self._error_count.get(context, 0)
ErrorCountOf(counts, context) ==
    IF context \in DOMAIN counts THEN counts[context] ELSE 0

\* log_error: what it writes to the log
log_error(counts, context) ==
    LET error_count == ErrorCountOf(counts, context)
    IN  IF error_count >= _max_errors_per_context
        THEN IF error_count = _max_errors_per_context
             THEN {"suppression_notice"} ELSE {}
        ELSE {"error"}

\* _increment_error_count
_increment_error_count(counts, context) ==
    Put(counts, context, ErrorCountOf(counts, context) + 1)

\* _handle_specific_error: each of the five handlers logs one record and fires
\* one event on the bus, whatever the counter says
_handle_specific_error(context) == {"handler_record", "bus_event"}

\* handle_error(error, context)
HandleError(context) ==
    /\ ErrorCountOf(_error_count, context) < MaxErrors
    /\ error_log' =
           [context |-> context,
            records |-> log_error(_error_count, context)
                            \cup _handle_specific_error(context)]
    /\ _error_count' = _increment_error_count(_error_count, context)
    /\ UNCHANGED <<config, runVars, taskVars, queryVars, thresholdVars, lifeVars,
                   flowVars, deliverVars, tickVars>>

InitErrors ==
    /\ config = RunCatalog("Naunhof", NoAvailability)
    /\ in_topic = <<>>
    /\ in_payload = [kind |-> "empty", data |-> Null]
    /\ parsed = NoneResult
    /\ resolved = NoneStr
    /\ pc = "done"
    /\ config_file = NoFile
    /\ Constructed

NextErrors == \E context \in ErrorContexts : HandleError(context)

SpecErrors == InitErrors /\ [][NextErrors]_vars

(***************************************************************************)
(* C38.                                                                    *)
(***************************************************************************)
\* C38: the counter of every context stays at or below the configured maximum
\* of 10, and an error handled for a context whose counter has reached the
\* maximum writes nothing to the log except the suppression notice, which is
\* written once
C38_CounterCappedAndSuppressed ==
    /\ [](\A c \in DOMAIN _error_count : _error_count[c] <= _max_errors_per_context)
    /\ [][\A c \in ErrorContexts :
            (HandleError(c) /\ ErrorCountOf(_error_count, c) >= _max_errors_per_context)
                => /\ error_log'.records \subseteq {"suppression_notice"}
                   /\ "suppression_notice" \in error_log'.records
                          <=> ErrorCountOf(_error_count, c) = _max_errors_per_context]_vars

(***************************************************************************)
(* C36.                                                                    *)
(***************************************************************************)
\* C36: a health tick makes no connection attempt when the transport is
\* connected (client and session stay as they are) and one when it is not (the
\* client is the one that attempt leaves behind); whether the attempt succeeds
\* or fails, the refresh does not fail and the snapshot it returns and stores
\* is the current one: every device's readings and last-seen time are as before
C36_HealthTickFrame ==
    [][\A ok \in BOOLEAN :
          HealthTick(ok) =>
              /\ _async_update_data(_connected, ok).attempts = (IF _connected THEN 0 ELSE 1)
              /\ _connected => client' = client /\ subscribed' = subscribed
              /\ ~_connected => client' = (IF ok THEN "started" ELSE "stopped")
              /\ last_update_success'
              /\ phase' = "running"
              /\ _sensor_data' = _sensor_data
              /\ _device_last_seen' = _device_last_seen]_vars
\* a failed attempt of a tick has left the transport down with a stopped client
\* while readings are stored
C36_Witness ==
    /\ phase = "running"
    /\ ~_connected
    /\ client = "stopped"
    /\ last_update_success
    /\ DOMAIN _sensor_data # {}
    /\ DOMAIN _device_last_seen # {}

(***************************************************************************)
(* C34.                                                                    *)
(***************************************************************************)
\* the reconnect tasks that are inside connect()
Connecting == {i \in 1..Len(reconnect_tasks) : reconnect_tasks[i] = "connecting"}

\* C34: connection attempts are serialized across all initiators: at most one
\* reconnect task is inside connect() at a time, and a health tick starts its
\* own connect() only while no reconnect task is inside connect()
C34_ConnectSerialized ==
    /\ [](Cardinality(Connecting) <= 1)
    /\ [][\A ok \in BOOLEAN :
            (HealthTick(ok) /\ _async_update_data(_connected, ok).attempts > 0)
                => Connecting = {}]_vars

(***************************************************************************)
(* The delivery of messages: network thread, event loop, one task per      *)
(* message.                                                                *)
(***************************************************************************)
\* the messages the network thread receives in a run
MaxMessages == 3

\* one senseBox with two sensors and one median feed
DeliverCatalog(location) ==
    [known_devices |-> <<
        Category("senseBox",
                 <<Device("sb1", NoneStr, SenseBoxTopic("sb1"), {"temp", "hum"})>>),
        Category("MedianEntities",
                 <<Device("median_Naunhof", location, MedianTopic("Naunhof"), {"temp"})>>) >>,
     ignore_rssi_only |-> TRUE,
     availability |-> NoAvailability]
\* a temperature and a humidity reading as the devices send them, a temperature
\* reading as the median feed sends it
DeliverPayloads ==
    {Json(Obj("fields" :> Obj("temp" :> Num(21)))),
     Json(Obj("fields" :> Obj("hum" :> Num(55)))),
     Json(Obj("temp" :> Num(21)))}

\* the event loop runs the callbacks handed over with call_soon_threadsafe
\* first in, first out
RunNewest(calls) ==
    [call |-> Last(calls), rest |-> SubSeq(calls, 1, Len(calls) - 1)]
RunNext(calls) == [call |-> Head(calls), rest |-> Tail(calls)]

\* the first steps of the tasks async_create_task scheduled run in the order of
\* their creation: the index of the oldest task not started, 0 if there is none
NewestCreated(queue) ==
    LET hits == {i \in 1..Len(queue) : queue[i].pc = "created"}
    IN  IF hits = {} THEN 0 ELSE CHOOSE i \in hits : \A j \in hits : j <= i
NextCreated(queue) ==
    FirstIndex({i \in 1..Len(queue) : queue[i].pc = "created"})

\* the order of the keys of a payload object, which the dict sensor_data keeps
SensorOrder == <<"temp", "hum", "rssi">>

\* EntityFactory._generate_entity_id: "sensor.<device>_<sensor>", as its parts
_generate_entity_id(device_id, sensor_name) == <<"sensor", device_id, sensor_name>>

\* EntityFactory.create_sensor_entity: None without device info
create_sensor_entity(cfg, device_id, sensor_name, sensor_data) ==
    IF ~get_device_by_id(cfg, device_id).ok THEN NoneResult
    ELSE [ok |-> TRUE, entity_id |-> _generate_entity_id(device_id, sensor_name)]

\* EntityFactory.create_entities_for_device: the entity ids, in dict order, of
\* the int or float values an entity could be created for
create_entities_for_device(cfg, device_id, sensor_data) ==
    LET made == SelectSeq(SensorOrder,
                    LAMBDA k : /\ k \in DOMAIN sensor_data
                               /\ IsIntOrFloat(sensor_data[k])
                               /\ create_sensor_entity(cfg, device_id, k, sensor_data).ok)
    IN  [i \in 1..Len(made) |->
            create_sensor_entity(cfg, device_id, made[i], sensor_data).entity_id]

\* the data of the EVENT_SENSOR_DATA_RECEIVED event update_sensor_data fires
\* (<<>> for an entity_id of None)
SensorDataEvent(cfg, device_id, sensor_data) ==
    LET entities == create_entities_for_device(cfg, device_id, sensor_data)
    IN  [device_id |-> device_id,
         entity_count |-> Len(entities),
         entity_id |-> IF entities # <<>> THEN entities[1] ELSE <<>>]

\* update_sensor_data: self._sensor_data[device_id] = sensor_data
MergeReadings(data, device_id, sensor_data) ==
    Put(data, device_id,
        IF device_id \in DOMAIN data THEN sensor_data @@ data[device_id] ELSE sensor_data)
StoreReadings(data, device_id, sensor_data) == Put(data, device_id, sensor_data)

\* the state one task works on: readings, last-seen times, events fired, and
\* what is left of the task (<<>> once it has ended)
TaskState(task) ==
    [data |-> _sensor_data, seen |-> _device_last_seen, fired |-> fired,
     remains |-> <<task>>]

\* _handle_mqtt_message when parse_message returned None: it returns
IgnoredNotified(task, st) ==
    [st EXCEPT !.remains = <<>>,
               !.fired = Append(st.fired,
                                [n |-> task.n,
                                 data |-> SensorDataEvent(config, NoneStr, EmptyFn)])]
Ignored(task, st) == [st EXCEPT !.remains = <<>>]

\* "if not parsed_data: return"
Relevant(parsed_data) == parsed_data.ok

\* update_sensor_data after create_entities_for_device: the event is fired and
\* the task ends
Publish(task, st) ==
    [st EXCEPT !.remains = <<>>,
               !.fired = Append(st.fired,
                                [n |-> task.n,
                                 data |-> SensorDataEvent(config, task.device_id,
                                                          task.sensor_data)])]

\* the task after the store: suspended in create_entities_for_device, or past
\* the event
Suspended(task, device_id, sensor_data) ==
    [task EXCEPT !.pc = "entities", !.device_id = device_id, !.sensor_data = sensor_data]
Continue(task, suspends, device_id, sensor_data, st) ==
    IF suspends /\ get_device_by_id(config, device_id).ok
    THEN [st EXCEPT !.remains = <<Suspended(task, device_id, sensor_data)>>]
    ELSE Publish(Suspended(task, device_id, sensor_data), st)

\* update_sensor_data(device_id, sensor_data) for the task: the store and the
\* last-seen stamp, then create_entities_for_device, which suspends while the
\* translations of a known device's sensors load (the task stays, at
\* "entities") or returns at once
update_sensor_data(task, suspends, device_id, sensor_data, st) ==
    Continue(task, suspends, device_id, sensor_data,
             [st EXCEPT !.data = StoreReadings(st.data, device_id, sensor_data),
                        !.seen = RecordSeen(st.seen, device_id, Clock)])

\* _handle_mqtt_message from its start, parse_message having returned
\* parsed_data (it does not suspend, the catalog is loaded)
_handle_mqtt_message(task, suspends, parsed_data, st) ==
    IF ~Relevant(parsed_data) THEN Ignored(task, st)
    ELSE update_sensor_data(task, suspends, parsed_data.device_id,
                            parsed_data.sensor_data, st)

StartOf(task, suspends) ==
    _handle_mqtt_message(task, suspends,
                         parse_message(config, task.topic, task.payload),
                         TaskState(task))

\* what the first step of the task at place i of message_tasks leaves behind
Started(st, i) ==
    /\ _sensor_data' = st.data
    /\ _device_last_seen' = st.seen
    /\ fired' = st.fired
    /\ message_tasks' = SubSeq(message_tasks, 1, i - 1) \o st.remains
                            \o SubSeq(message_tasks, i + 1, Len(message_tasks))

NewTask(n, msg) ==
    [n |-> n, topic |-> msg.topic, payload |-> msg.payload, pc |-> "created",
     device_id |-> NoneStr, sensor_data |-> EmptyFn]

\* MQTTService._on_message, on the network thread
DeliverMessage(topic, payload) ==
    /\ client = "started"
    /\ _connected
    /\ topic \in subscribed
    /\ Len(received) < MaxMessages
    /\ IF topic \in _callbacks
       THEN /\ loop_calls' = Append(loop_calls, [topic |-> topic, payload |-> payload])
            /\ received' = Append(received, [topic |-> topic, payload |-> payload])
       ELSE UNCHANGED <<loop_calls, received>>
    /\ UNCHANGED <<config, parseVars, phase, client, _connected, _callbacks,
                   reconnectVars, dataVars, policyVars, clockVars, brokerVars, apiVars,
                   taskVars, queryVars, thresholdVars, lifeVars, flowVars, invoked,
                   message_tasks, fired, eager, tickVars, errorVars>>

\* the event loop runs a handed-over callback: _execute_callback_safe calls
\* _mqtt_message_wrapper, which creates the task of the message; an eager task
\* runs to its first suspension inside async_create_task
RunCallback(suspends) ==
    /\ loop_calls # <<>>
    /\ ~eager => ~suspends
    /\ LET next == RunNext(loop_calls)
           task == NewTask(Len(invoked) + 1, next.call)
           st == IF eager THEN StartOf(task, suspends) ELSE TaskState(task)
       IN  /\ loop_calls' = next.rest
           /\ invoked' = Append(invoked, next.call)
           /\ Started(st, Len(message_tasks) + 1)
    /\ UNCHANGED <<config, parseVars, phase, client, _connected, _callbacks,
                   reconnectVars, tasks, policyVars, clockVars, brokerVars, apiVars,
                   taskVars, queryVars, thresholdVars, lifeVars, flowVars, received,
                   eager, tickVars, errorVars>>

\* the event loop runs the first step of the oldest task not started
StartTask(suspends) ==
    /\ NextCreated(message_tasks) # 0
    /\ Started(StartOf(message_tasks[NextCreated(message_tasks)], suspends),
               NextCreated(message_tasks))
    /\ UNCHANGED <<config, parseVars, phase, mqttVars, reconnectVars, tasks,
                   policyVars, clockVars, brokerVars, apiVars, taskVars, queryVars,
                   thresholdVars, lifeVars, flowVars, received, invoked, eager,
                   tickVars, errorVars>>

\* a task suspended in create_entities_for_device resumes
ResumeTask(i) ==
    /\ i \in 1..Len(message_tasks)
    /\ message_tasks[i].pc = "entities"
    /\ fired' = Publish(message_tasks[i], TaskState(message_tasks[i])).fired
    /\ message_tasks' = Remove(message_tasks, i)
    /\ UNCHANGED <<config, parseVars, phase, mqttVars, reconnectVars, dataVars,
                   policyVars, clockVars, brokerVars, apiVars, taskVars, queryVars,
                   thresholdVars, lifeVars, flowVars, received, invoked, eager,
                   tickVars, errorVars>>

InitDeliver ==
    /\ config \in {DeliverCatalog("Naunhof"), DeliverCatalog(NoneStr)}
    /\ in_topic = <<>>
    /\ in_payload = [kind |-> "empty", data |-> Null]
    /\ parsed = NoneResult
    /\ resolved = NoneStr
    /\ pc = "done"
    /\ config_file = NoFile
    /\ Fields
    /\ eager \in BOOLEAN

NextDeliver ==
    \/ \E ok \in BOOLEAN, connack \in BOOLEAN, skipped \in 0..MaxTopics :
           FirstRefresh(ok, connack, skipped)
    \/ \E topic \in RunTopics, payload \in DeliverPayloads : DeliverMessage(topic, payload)
    \/ \E suspends \in BOOLEAN : RunCallback(suspends)
    \/ \E suspends \in BOOLEAN : StartTask(suspends)
    \/ \E i \in 1..MaxMessages : ResumeTask(i)

SpecDeliver == InitDeliver /\ [][NextDeliver]_vars

(***************************************************************************)
(* C31, C35, C37, C39, C40.                                                *)
(***************************************************************************)
\* what parse_message returns for a message
ParsedOf(msg) == parse_message(config, msg.topic, msg.payload)
\* no callback is waiting and no task is alive
Quiescent == loop_calls = <<>> /\ message_tasks = <<>>
\* the messages of a sequence that came on a topic
OnTopic(msgs, topic) == SelectSeq(msgs, LAMBDA m : m.topic = topic)
IsPrefix(s, t) == Len(s) <= Len(t) /\ s = SubSeq(t, 1, Len(s))

\* C31: for every topic, the messages the handler has been invoked with are, in
\* the order of the invocations, the first of the messages the network thread
\* received on that topic, in the order it received them
C31_HandlerInReceiveOrder ==
    \A topic \in RunTopics : IsPrefix(OnTopic(invoked, topic), OnTopic(received, topic))
\* the handler has been invoked with two different messages of one topic
C31_Witness ==
    \E i, j \in 1..Len(invoked) :
        /\ i < j
        /\ invoked[i].topic = invoked[j].topic
        /\ invoked[i].payload # invoked[j].payload

\* the message whose task takes its first step in this step is msg
FirstStepOf(msg) ==
    \E suspends \in BOOLEAN :
        \/ /\ eager
           /\ RunCallback(suspends)
           /\ msg = Head(loop_calls)
        \/ /\ StartTask(suspends)
           /\ msg.topic = message_tasks[NextCreated(message_tasks)].topic
           /\ msg.payload = message_tasks[NextCreated(message_tasks)].payload

\* the event fired for the n-th invocation of the handler, as a set
EventsOf(n) == {k \in 1..Len(fired) : fired[k].n = n}

\* C35: every event fired belongs to a message that parsed to a reading, whose
\* device then has readings and a last-seen time stored; its data are the
\* device id, the number of readings of the message and the entity id of one
\* of these readings or None, and nothing else; once all tasks have ended,
\* exactly one event was fired for every message that parsed to a reading
C35_OneNotificationPerReading ==
    /\ \A k \in 1..Len(fired) :
          LET p == ParsedOf(invoked[fired[k].n])
              e == fired[k].data
          IN  /\ p.ok
              /\ p.device_id \in DOMAIN _sensor_data
              /\ p.device_id \in DOMAIN _device_last_seen
              /\ DOMAIN e = {"device_id", "entity_count", "entity_id"}
              /\ e.device_id = p.device_id
              /\ e.entity_count = Cardinality(DOMAIN p.sensor_data)
              /\ \/ e.entity_id = <<>>
                 \/ \E key \in DOMAIN p.sensor_data :
                        e.entity_id = _generate_entity_id(p.device_id, key)
    /\ Quiescent =>
          \A n \in 1..Len(invoked) :
              ParsedOf(invoked[n]).ok => Cardinality(EventsOf(n)) = 1

\* C37: the first step of the task of a message parse_message returns None for
\* leaves the readings and the last-seen time of every device as they are and
\* fires no event, and no event is ever fired for such a message
C37_NoneLeavesStateAlone ==
    /\ [](\A k \in 1..Len(fired) : ParsedOf(invoked[fired[k].n]).ok)
    /\ [][\A msg \in {[topic |-> t, payload |-> p] : t \in RunTopics, p \in DeliverPayloads} :
            (FirstStepOf(msg) /\ ~ParsedOf(msg).ok)
                => UNCHANGED <<_sensor_data, _device_last_seen, fired>>]_vars
\* a message without a reading has been handled after one with a reading, and
\* nothing is in flight
C37_Witness ==
    /\ Quiescent
    /\ \E i, j \in 1..Len(invoked) :
          i < j /\ ParsedOf(invoked[i]).ok /\ ~ParsedOf(invoked[j]).ok
    /\ Len(fired) = 1

\* C39: the first step of the task of a message that parses to a reading makes
\* the message's sensor data the stored readings of its device, whatever was
\* stored for it, and leaves the readings and the last-seen time of every other
\* device as they are
C39_StoreReplaces ==
    [][\A msg \in {[topic |-> t, payload |-> p] : t \in RunTopics, p \in DeliverPayloads} :
          (FirstStepOf(msg) /\ ParsedOf(msg).ok)
              => LET p == ParsedOf(msg)
                 IN  /\ DOMAIN _sensor_data' = DOMAIN _sensor_data \cup {p.device_id}
                     /\ _sensor_data'[p.device_id] = p.sensor_data
                     /\ \A d \in DOMAIN _sensor_data \ {p.device_id} :
                            _sensor_data'[d] = _sensor_data[d]
                     /\ DOMAIN _device_last_seen' =
                            DOMAIN _device_last_seen \cup {p.device_id}
                     /\ \A d \in DOMAIN _device_last_seen \ {p.device_id} :
                            _device_last_seen'[d] = _device_last_seen[d]]_vars
\* a humidity reading has replaced the temperature reading of the senseBox
\* while the median feed's device keeps its readings
C39_Witness ==
    /\ Quiescent
    /\ "sb1" \in DOMAIN _sensor_data
    /\ DOMAIN _sensor_data["sb1"] = {"hum"}
    /\ \E i \in 1..Len(invoked) :
          ParsedOf(invoked[i]).ok /\ ParsedOf(invoked[i]).device_id = "sb1"
              /\ DOMAIN ParsedOf(invoked[i]).sensor_data = {"temp"}
    /\ DOMAIN _sensor_data # {"sb1"}

\* the place, in the order of reception, of the last message that parses to a
\* reading of the device; 0 if there is none
LastParsedFor(device_id) ==
    LET hits == {n \in 1..Len(received) :
                    ParsedOf(received[n]).ok /\ ParsedOf(received[n]).device_id = device_id}
    IN  IF hits = {} THEN 0 ELSE CHOOSE n \in hits : \A m \in hits : m <= n
DeliverDevices == {"sb1", "median_Naunhof", "Naunhof"}

\* C40: once nothing is in flight, the stored readings of every device are the
\* sensor data of the last message received that parses to a reading of that
\* device, and a device no such message was received for has none
C40_LastMessageWins ==
    Quiescent =>
        /\ DOMAIN _sensor_data \subseteq DeliverDevices
        /\ \A d \in DeliverDevices :
              IF LastParsedFor(d) = 0 THEN d \notin DOMAIN _sensor_data
              ELSE /\ d \in DOMAIN _sensor_data
                   /\ _sensor_data[d] = ParsedOf(received[LastParsedFor(d)]).sensor_data
\* two readings of the senseBox with different fields have been handled, the
\* later one a temperature, and nothing is in flight
C40_Witness ==
    /\ Quiescent
    /\ \E i, j \in 1..Len(received) :
          /\ i < j
          /\ received[i].topic = SenseBoxTopic("sb1")
          /\ received[j].topic = SenseBoxTopic("sb1")
          /\ ParsedOf(received[i]).ok
          /\ ParsedOf(received[j]).ok
          /\ received[i].payload # received[j].payload
          /\ j = LastParsedFor("sb1")
    /\ Len(fired) >= 2

(***************************************************************************)
(* C32, C33.                                                               *)
(***************************************************************************)
\* C32: an unexpected disconnect (rc # 0) clears the connection flag and hands
\* the disconnected event and the start of a reconnect to the event loop; the
\* event loop, which runs every callback handed to it in the order they were
\* handed over, puts the event on the queue and starts a reconnect task unless
\* the handle holds one that is alive
C32_DisconnectNotifiesAndReconnects ==
    /\ [][\A rc \in {7} :
            NetOnDisconnect(rc) =>
                /\ ~_connected'
                /\ handoff' = handoff \o <<"queue_disconnect", "start_reconnect">>]_vars
    /\ [][LoopRun =>
            /\ handoff' = Tail(handoff)
            /\ Head(handoff) = "queue_disconnect" =>
                   _event_queue' = Append(_event_queue, "disconnect")
            /\ Head(handoff) = "start_reconnect" =>
                   /\ _reconnect_task'
                   /\ reconnect_tasks' =
                          IF _reconnect_task THEN reconnect_tasks
                          ELSE Append(reconnect_tasks, "sleeping")]_vars
    /\ []<>(handoff # <<>>) => []<><<LoopRun>>_vars
\* after a second unexpected disconnect the disconnected events are queued, one
\* reconnect task is alive and the second request found it in flight
C32_Witness ==
    /\ ~_connected
    /\ handoff = <<>>
    /\ Len(SelectSeq(_event_queue, LAMBDA e : e = "disconnect")) >= 2
    /\ _reconnect_task
    /\ Len(reconnect_tasks) = 1
    /\ reconnect_skipped

\* C33: a successful handshake (rc = 0) sets the connection flag and hands the
\* connected event to the event loop, which puts it on the queue; unless the
\* service is shut down, the event processor takes every event off the queue,
\* oldest first, and fires it.  A failed handshake (rc # 0) clears the flag and
\* hands nothing over.
C33_ConnectNotifies ==
    /\ [][\A rc \in {0, 2, 5}, new_id \in ClientIds :
            NetOnConnect(rc, new_id) =>
                /\ _connected' = (rc = 0)
                /\ handoff' = IF rc = 0 THEN Append(handoff, "queue_connect")
                              ELSE handoff
                /\ UNCHANGED _event_queue]_vars
    /\ [][(LoopRun /\ Head(handoff) = "queue_connect") =>
            /\ handoff' = Tail(handoff)
            /\ _event_queue' = Append(_event_queue, "connect")]_vars
    /\ [][ProcessEvent => _event_queue' = Tail(_event_queue)]_vars
    /\ [][_event_queue' # _event_queue =>
            \/ LoopRun
            \/ ProcessEvent]_vars
    /\ [](shutdown_pc = "idle" /\ client = "started" => _event_processor_task)
    /\ \/ <>(shutdown_pc # "idle")
       \/ /\ []<>(handoff # <<>>) => []<><<LoopRun>>_vars
          /\ []<>(_event_queue # <<>>) => []<><<ProcessEvent>>_vars
\* the connected event of a handshake after a reconnect has been fired: the
\* transport is connected, nothing is pending and the service is not shut down
C33_Witness ==
    /\ _connected
    /\ shutdown_pc = "idle"
    /\ handoff = <<>>
    /\ _event_queue = <<>>
    /\ _event_processor_task
    /\ reconnect_failures = 0
    /\ reconnect_skipped

=============================================================================
